---- MODULE Spec2Model ----
(***************************************************************************)
(* Model of drivers/cpufreq/cpufreq_governor.c: the common code of the     *)
(* demand-based cpufreq governors.  The fast path                          *)
(* (dbs_update_util_handler), the hand-off (dbs_irq_work), the slow path   *)
(* (dbs_work_handler), the governor events (init, start, stop, limits,     *)
(* exit) and the sysfs store of sampling_rate are modelled statement by    *)
(* statement where they race with each other.                              *)
(***************************************************************************)
EXTENDS Integers, Sequences, FiniteSets, TLC

(***************************************************************************)
(* Bounds of the model.                                                    *)
(***************************************************************************)
\* Timestamps handed to the fast path are multiples of the smallest sample
\* delay, 0 .. MaxTime of them, plus the default sample delay.
MaxTime == 1

(***************************************************************************)
(* Program constants.                                                      *)
(***************************************************************************)
NSEC_PER_USEC == 1000
LATENCY_MULTIPLIER == 1000
MIN_LATENCY_MULTIPLIER == 20

NULL == "NULL"

\* Two policies: p1 spans two CPUs (a shared policy), p2 one CPU.
Policies == {"p1", "p2"}
CPUs == {"c1", "c2", "c3"}

related_cpus(p) == IF p = "p1" THEN {"c1", "c2"} ELSE {"c3"}

policy_of(c) == CHOOSE p \in Policies : c \in related_cpus(p)

\* policy->cpuinfo.transition_latency, in ns, as the driver reports it.
transition_latency(p) == IF p = "p1" THEN 0 ELSE 2500

\* The dbs_data objects kzalloc() can hand out.
DbsIds == {"d1", "d2"}

Max(a, b) == IF a >= b THEN a ELSE b

policy_is_shared(p) == Cardinality(related_cpus(p)) > 1

Times ==
    {k * MIN_LATENCY_MULTIPLIER * NSEC_PER_USEC : k \in 0..MaxTime}
        \cup {LATENCY_MULTIPLIER * NSEC_PER_USEC}

(***************************************************************************)
(* State.                                                                  *)
(***************************************************************************)
VARIABLES
    per_policy,         \* have_governor_per_policy(), fixed by the driver
    policy,             \* struct cpufreq_policy: min, max, cur; driver calls
    gdbs_data,          \* gov->gdbs_data: NULL or a dbs_data
    gov_dbs_data_mutex, \* NULL or the policy whose init/exit holds it
    dbs,                \* the dbs_data objects (with their gov_attr_set)
    governor_data,      \* policy->governor_data != NULL, per policy
    pdbs,               \* the policy_dbs_info of each policy
    cdbs,               \* per-CPU cpu_dbs: policy_dbs, update_util.func
    update_util,        \* per-CPU hook installed (cpufreq_set_update_util_data)
    hnd,                \* per-CPU invocation of dbs_update_util_handler
    irq_work,           \* per policy: policy_dbs->irq_work is pending
    work,               \* per policy: policy_dbs->work pending / handler position
    gov,                \* per policy: the governor event in progress
    sysfs,              \* the sysfs writer: governor_store in progress
    cdbs_prev,          \* per-CPU cpu_dbs: prev_cpu_wall/idle/nice, prev_load
    sample,             \* the last dbs_update: its result, the loads it used
    policy_stats,       \* cpufreq_stats.c: policy->stats of one policy
    jiffies,            \* get_jiffies_64()
    overrun,            \* memory outside time_in_state has been written
    notified,           \* the last call of cpufreq_stat_notifier_trans
    uid_hash_table,     \* cpufreq_stats.c: the uids with a uid_entry
    remove_uids         \* cpufreq_task_stats_remove_uids in progress

\* The state of the load computation.
loadvars == <<cdbs_prev, sample>>

\* The state of cpufreq_stats.c.
statvars == <<policy_stats, jiffies, overrun, notified, uid_hash_table,
              remove_uids>>

\* policy->stats is NULL.
NoStats == [present |-> FALSE, total_trans |-> 0, last_time |-> 0,
            max_state |-> 0, curr_state |-> 0, time_in_state |-> <<>>,
            freq_table |-> <<>>]

\* No notification has been delivered.
NoNotification == [val |-> "none", found |-> FALSE, new |-> 0]

\* cpufreq_task_stats_remove_uids is not running.  first is the value of
\* uid_start at the call.
NoRemove == [pc |-> "idle", uid_start |-> 0, uid_end |-> 0, first |-> 0]

vars == <<statvars, per_policy, loadvars, policy, gdbs_data, gov_dbs_data_mutex, dbs,
          governor_data, pdbs, cdbs, update_util, hnd, irq_work, work, gov,
          sysfs>>

\* A dbs_data that is not allocated.
NoDbs == [live |-> FALSE, sampling_rate |-> 0, min_sampling_rate |-> 0,
          usage_count |-> 0, policy_list |-> <<>>, update_lock |-> NULL,
          kobj |-> FALSE]

\* A policy_dbs_info that is not allocated.
NoPdbs == [dbs_data |-> NULL, sample_delay_ns |-> 0, last_sample_time |-> 0,
           work_in_progress |-> FALSE, work_count |-> 0, is_shared |-> FALSE,
           rate_mult |-> 0, timer_mutex |-> NULL]

NoCdbs == [policy_dbs |-> NULL, func |-> FALSE]

\* The load fields of a cpu_dbs_info before the first start (static zero).
NoCdbsPrev == [prev_cpu_wall |-> 0, prev_cpu_idle |-> 0, prev_cpu_nice |-> 0,
               prev_load |-> 0]

\* No load: the CPU was skipped by the last dbs_update.
NoLoad == -1

\* No dbs_update has returned a value the governor has yet to use.  reused
\* is a history field over the samples of the CPU that were not skipped:
\* "once" when the last one took its load from prev_load, "after" when the
\* last one computed its load and the one before took it from prev_load,
\* "no" otherwise.  updates is a history field: the calls of dbs_update
\* since the last start, 2 standing for two or more.  stat, ignore_nice and
\* sampling_rate are what the call read: the counters of the CPUs,
\* dbs_data->ignore_nice_load and the product of line 175.
NoSample == [done |-> FALSE, max_load |-> 0,
             load |-> [c \in CPUs |-> NoLoad],
             reused |-> [c \in CPUs |-> "no"],
             updates |-> 0,
             stat |-> [c \in CPUs |-> [wall |-> 0, idle |-> 0, nice |-> 0]],
             ignore_nice |-> FALSE,
             sampling_rate |-> 0]

\* fresh is a history field: no CPU has written last_sample_time since this
\* invocation read it.  lag is a history field: when the invocation saw
\* work_in_progress clear, the work handler had cleared it in a run that had
\* not stored its sample delay, and has not stored it since.
IdleHnd == [pc |-> "idle", time |-> 0, lst |-> 0, fresh |-> FALSE,
            lag |-> FALSE]

\* wrote and cleared are history fields of the run of the work handler in
\* progress: it has stored the sample delay, it has cleared work_in_progress.
IdleWork == [pending |-> FALSE, pc |-> "idle", delay |-> 0, wrote |-> FALSE,
             cleared |-> FALSE]

\* stored is a history field: a store of sampling_rate has reset the sample
\* delay of the policy while its hooks were installed, and the policy has
\* not been stopped or started since.
\* op and ret: the event that has returned, and what it returned, until the
\* caller has taken the result.
IdleGov == [pc |-> "idle", op |-> "none", rate |-> 0, ret |-> "none",
            stored |-> FALSE]

\* The frequencies of the driver's table, in kHz.
Freqs == {300, 600, 900}

\* policy->min, policy->max and policy->cur as the cpufreq core has set them;
\* driver_calls: the calls of __cpufreq_driver_target by the governor event
\* that is running or has just returned.
InitPolicy == [min |-> 300, max |-> 900, cur |-> 600, driver_calls |-> <<>>]

\* calls: how often this write has called the attribute's store.
IdleSysfs == [pc |-> "idle", dbs |-> NULL, buf |-> <<>>, walk |-> <<>>,
              calls |-> 0, ret |-> "none"]

Init ==
    /\ per_policy \in BOOLEAN
    /\ policy = [p \in Policies |-> InitPolicy]
    /\ gdbs_data = NULL
    /\ gov_dbs_data_mutex = NULL
    /\ dbs = [d \in DbsIds |-> NoDbs]
    /\ governor_data = [p \in Policies |-> FALSE]
    /\ pdbs = [p \in Policies |-> NoPdbs]
    /\ cdbs = [c \in CPUs |-> NoCdbs]
    /\ update_util = [c \in CPUs |-> FALSE]
    /\ hnd = [c \in CPUs |-> IdleHnd]
    /\ irq_work = [p \in Policies |-> FALSE]
    /\ work = [p \in Policies |-> IdleWork]
    /\ gov = [p \in Policies |-> IdleGov]
    /\ sysfs = IdleSysfs
    /\ cdbs_prev = [c \in CPUs |-> NoCdbsPrev]
    /\ sample = NoSample
    /\ policy_stats = NoStats
    /\ jiffies = 0
    /\ overrun = FALSE
    /\ notified = NoNotification
    /\ uid_hash_table = {}
    /\ remove_uids = NoRemove

(***************************************************************************)
(* gov_update_sample_delay (cpufreq_governor.h): the delay in ns.          *)
(***************************************************************************)
gov_update_sample_delay(pd, delay_us) ==
    [pd EXCEPT !.sample_delay_ns = delay_us * NSEC_PER_USEC]

\* (Variant of TimerMutexFree: mutex_lock does not wait.)
TimerMutexFree_NoWait(pd) == TRUE

\* mutex_lock(&policy_dbs->timer_mutex), lines 63, 307 and 619, returns
\* when no thread holds the mutex.
TimerMutexFree(pd) == pd.timer_mutex = NULL

(***************************************************************************)
(* The fast path: dbs_update_util_handler on CPU c, one shared-memory      *)
(* access per step.  The scheduler calls it with any timestamp.            *)
(***************************************************************************)
\* Line 343: the call, and the check of work_in_progress.
HandlerEnter(c, time) ==
    LET p == cdbs[c].policy_dbs IN
    /\ update_util[c]
    /\ hnd[c].pc = "idle"
    /\ p # NULL
    /\ IF pdbs[p].work_in_progress
         THEN hnd' = hnd
         ELSE hnd' = [hnd EXCEPT ![c] =
                        [pc |-> "read_lst", time |-> time, lst |-> 0,
                         fresh |-> FALSE,
                         lag |-> work[p].cleared /\ ~work[p].wrote]]
    /\ UNCHANGED <<statvars, per_policy, loadvars, policy, gdbs_data,
                   gov_dbs_data_mutex, dbs, governor_data, pdbs, cdbs,
                   update_util, irq_work, work, gov, sysfs>>

\* Line 351: lst = READ_ONCE(policy_dbs->last_sample_time).
HandlerReadLst(c) ==
    LET p == cdbs[c].policy_dbs IN
    /\ hnd[c].pc = "read_lst"
    /\ hnd' = [hnd EXCEPT ![c].pc = "check_delay",
                          ![c].lst = pdbs[p].last_sample_time,
                          ![c].fresh = TRUE]
    /\ UNCHANGED <<statvars, per_policy, loadvars, policy, gdbs_data,
                   gov_dbs_data_mutex, dbs, governor_data, pdbs, cdbs,
                   update_util, irq_work, work, gov, sysfs>>

\* (Variant of delta_ns without the cast: an earlier time wraps around to
\* a huge difference.)
delta_ns_Unsigned(time, lst) ==
    IF time < lst THEN time - lst + 2 ^ 30 ELSE time - lst

\* Lines 352-353: delta_ns = time - lst, compared as an s64.
delta_ns(time, lst) == time - lst

\* Lines 352-361: too early, or on to the gate (shared) or the hand-off.
HandlerCheckDelay(c) ==
    LET p == cdbs[c].policy_dbs IN
    /\ hnd[c].pc = "check_delay"
    /\ hnd' = [hnd EXCEPT ![c] =
                 IF delta_ns(hnd[c].time, hnd[c].lst)
                       < pdbs[p].sample_delay_ns THEN IdleHnd
                 ELSE IF pdbs[p].is_shared THEN [@ EXCEPT !.pc = "claim"]
                 ELSE [@ EXCEPT !.pc = "set_lst"]]
    /\ UNCHANGED <<statvars, per_policy, loadvars, policy, gdbs_data,
                   gov_dbs_data_mutex, dbs, governor_data, pdbs, cdbs,
                   update_util, irq_work, work, gov, sysfs>>

\* (Variant of HandlerClaim with an atomic_inc in place of the
\* atomic_add_unless.)
HandlerClaim_Inc(c) ==
    LET p == cdbs[c].policy_dbs IN
    /\ hnd[c].pc = "claim"
    /\ hnd' = [hnd EXCEPT ![c].pc = "recheck"]
    /\ pdbs' = [pdbs EXCEPT ![p].work_count = @ + 1]
    /\ UNCHANGED <<statvars, per_policy, loadvars, policy, gdbs_data,
                   gov_dbs_data_mutex, dbs, governor_data, cdbs, update_util,
                   irq_work, work, gov, sysfs>>

\* Line 362: atomic_add_unless(&policy_dbs->work_count, 1, 1).
HandlerClaim(c) ==
    LET p == cdbs[c].policy_dbs IN
    /\ hnd[c].pc = "claim"
    /\ IF pdbs[p].work_count = 1
         THEN /\ hnd' = [hnd EXCEPT ![c] = IdleHnd]
              /\ pdbs' = pdbs
         ELSE /\ hnd' = [hnd EXCEPT ![c].pc = "recheck"]
              /\ pdbs' = [pdbs EXCEPT ![p].work_count = @ + 1]
    /\ UNCHANGED <<statvars, per_policy, loadvars, policy, gdbs_data,
                   gov_dbs_data_mutex, dbs, governor_data, cdbs, update_util,
                   irq_work, work, gov, sysfs>>

\* (Variant of HandlerRecheck that returns without the atomic_set.)
HandlerRecheck_KeepsCount(c) ==
    LET p == cdbs[c].policy_dbs IN
    /\ hnd[c].pc = "recheck"
    /\ hnd' = [hnd EXCEPT ![c] =
                 IF hnd[c].lst # pdbs[p].last_sample_time THEN IdleHnd
                 ELSE [@ EXCEPT !.pc = "set_lst"]]
    /\ UNCHANGED <<statvars, per_policy, loadvars, policy, gdbs_data,
                   gov_dbs_data_mutex, dbs, governor_data, pdbs, cdbs,
                   update_util, irq_work, work, gov, sysfs>>

\* Lines 369-372: another CPU updated last_sample_time in the meantime.
HandlerRecheck(c) ==
    LET p == cdbs[c].policy_dbs IN
    /\ hnd[c].pc = "recheck"
    /\ IF hnd[c].lst # pdbs[p].last_sample_time
         THEN /\ hnd' = [hnd EXCEPT ![c] = IdleHnd]
              /\ pdbs' = [pdbs EXCEPT ![p].work_count = 0]
         ELSE /\ hnd' = [hnd EXCEPT ![c].pc = "set_lst"]
              /\ pdbs' = pdbs
    /\ UNCHANGED <<statvars, per_policy, loadvars, policy, gdbs_data,
                   gov_dbs_data_mutex, dbs, governor_data, cdbs, update_util,
                   irq_work, work, gov, sysfs>>

\* Line 375: policy_dbs->last_sample_time = time.
HandlerSetLst(c) ==
    LET p == cdbs[c].policy_dbs IN
    /\ hnd[c].pc = "set_lst"
    /\ hnd' = [x \in CPUs |->
                 IF x = c THEN [hnd[c] EXCEPT !.pc = "set_wip"]
                 ELSE IF cdbs[x].policy_dbs = p
                   THEN [hnd[x] EXCEPT !.fresh = FALSE]
                 ELSE hnd[x]]
    /\ pdbs' = [pdbs EXCEPT ![p].last_sample_time = hnd[c].time]
    /\ UNCHANGED <<statvars, per_policy, loadvars, policy, gdbs_data,
                   gov_dbs_data_mutex, dbs, governor_data, cdbs, update_util,
                   irq_work, work, gov, sysfs>>

\* Line 376: policy_dbs->work_in_progress = true.
HandlerSetWip(c) ==
    LET p == cdbs[c].policy_dbs IN
    /\ hnd[c].pc = "set_wip"
    /\ hnd' = [hnd EXCEPT ![c].pc = "queue"]
    /\ pdbs' = [pdbs EXCEPT ![p].work_in_progress = TRUE]
    /\ UNCHANGED <<statvars, per_policy, loadvars, policy, gdbs_data,
                   gov_dbs_data_mutex, dbs, governor_data, cdbs, update_util,
                   irq_work, work, gov, sysfs>>

\* Line 377: irq_work_queue(&policy_dbs->irq_work); a pending irq_work is
\* not queued a second time.
HandlerQueue(c) ==
    LET p == cdbs[c].policy_dbs IN
    /\ hnd[c].pc = "queue"
    /\ hnd' = [hnd EXCEPT ![c] = IdleHnd]
    /\ irq_work' = [irq_work EXCEPT ![p] = TRUE]
    /\ UNCHANGED <<statvars, per_policy, loadvars, policy, gdbs_data,
                   gov_dbs_data_mutex, dbs, governor_data, pdbs, cdbs,
                   update_util, work, gov, sysfs>>

(***************************************************************************)
(* The hand-off and the slow path.                                         *)
(***************************************************************************)
\* (Variant of dbs_irq_work that returns without schedule_work_on.)
dbs_irq_work_Drops(p) ==
    /\ irq_work[p]
    /\ irq_work' = [irq_work EXCEPT ![p] = FALSE]
    /\ UNCHANGED <<statvars, per_policy, loadvars, policy, gdbs_data,
                   gov_dbs_data_mutex, dbs, governor_data, pdbs, cdbs,
                   update_util, hnd, work, gov, sysfs>>

\* dbs_irq_work: schedule_work_on(); a pending work is not queued again.
dbs_irq_work(p) ==
    /\ irq_work[p]
    /\ irq_work' = [irq_work EXCEPT ![p] = FALSE]
    /\ work' = [work EXCEPT ![p].pending = TRUE]
    /\ UNCHANGED <<statvars, per_policy, loadvars, policy, gdbs_data,
                   gov_dbs_data_mutex, dbs, governor_data, pdbs, cdbs,
                   update_util, hnd, gov, sysfs>>

\* The workqueue takes the pending work and calls dbs_work_handler; a work
\* item never runs twice at the same time.
WorkStart(p) ==
    /\ work[p].pending
    /\ work[p].pc = "idle"
    /\ work' = [work EXCEPT ![p].pending = FALSE, ![p].pc = "lock"]
    /\ UNCHANGED <<statvars, per_policy, loadvars, policy, gdbs_data,
                   gov_dbs_data_mutex, dbs, governor_data, pdbs, cdbs,
                   update_util, hnd, irq_work, gov, sysfs>>

\* Line 307: mutex_lock(&policy_dbs->timer_mutex).
WorkLock(p) ==
    /\ work[p].pc = "lock"
    /\ TimerMutexFree(pdbs[p])
    /\ pdbs' = [pdbs EXCEPT ![p].timer_mutex = "work"]
    /\ work' = [work EXCEPT ![p].pc = "decide"]
    /\ UNCHANGED <<statvars, per_policy, loadvars, policy, gdbs_data,
                   gov_dbs_data_mutex, dbs, governor_data, cdbs, update_util,
                   hnd, irq_work, gov, sysfs>>

\* gov->gov_dbs_timer(policy): the governor's decision, which returns the
\* next delay in us: the sampling rate stretched by the rate multiplier.
gov_dbs_timer(p) ==
    dbs[pdbs[p].dbs_data].sampling_rate * pdbs[p].rate_mult

\* (Variant of WorkOrder: work_in_progress is cleared before the sample
\* delay is stored.)
WorkOrder_WipFirst == <<"clear_count", "clear_wip", "set_delay">>

\* The statements of dbs_work_handler after the decision, in program order:
\* lines 308-309, 312, 319.
WorkOrder == <<"set_delay", "clear_count", "clear_wip">>

\* The run of the work handler after the statement at w.pc: at the next
\* statement, or returned.
WorkNext(w) ==
    LET i == CHOOSE k \in 1..Len(WorkOrder) : WorkOrder[k] = w.pc IN
    IF i = Len(WorkOrder)
      THEN [IdleWork EXCEPT !.pending = w.pending]
      ELSE [w EXCEPT !.pc = WorkOrder[i + 1]]

\* Line 308: the call of gov->gov_dbs_timer(policy).
WorkDecide(p) ==
    /\ work[p].pc = "decide"
    /\ work' = [work EXCEPT ![p].pc = Head(WorkOrder),
                            ![p].delay = gov_dbs_timer(p)]
    /\ UNCHANGED <<statvars, per_policy, loadvars, policy, gdbs_data,
                   gov_dbs_data_mutex, dbs, governor_data, pdbs, cdbs,
                   update_util, hnd, irq_work, gov, sysfs>>

\* Lines 308-309: the new sample delay is stored, the mutex released.
WorkSetDelay(p) ==
    /\ work[p].pc = "set_delay"
    /\ pdbs' = [pdbs EXCEPT ![p] =
                  [gov_update_sample_delay(@, work[p].delay)
                     EXCEPT !.timer_mutex = NULL]]
    /\ work' = [work EXCEPT ![p] =
                  WorkNext([@ EXCEPT !.delay = 0, !.wrote = TRUE])]
    /\ hnd' = [c \in CPUs |->
                 IF c \in related_cpus(p) THEN [hnd[c] EXCEPT !.lag = FALSE]
                 ELSE hnd[c]]
    /\ UNCHANGED <<statvars, per_policy, loadvars, policy, gdbs_data,
                   gov_dbs_data_mutex, dbs, governor_data, cdbs, update_util,
                   irq_work, gov, sysfs>>

\* Line 312: atomic_set(&policy_dbs->work_count, 0).
WorkClearCount(p) ==
    /\ work[p].pc = "clear_count"
    /\ pdbs' = [pdbs EXCEPT ![p].work_count = 0]
    /\ work' = [work EXCEPT ![p] = WorkNext(@)]
    /\ UNCHANGED <<statvars, per_policy, loadvars, policy, gdbs_data,
                   gov_dbs_data_mutex, dbs, governor_data, cdbs, update_util,
                   hnd, irq_work, gov, sysfs>>

\* Lines 318-320: work_in_progress = false; the handler returns after its
\* last statement.
WorkClearWip(p) ==
    /\ work[p].pc = "clear_wip"
    /\ pdbs' = [pdbs EXCEPT ![p].work_in_progress = FALSE]
    /\ work' = [work EXCEPT ![p] = WorkNext([@ EXCEPT !.cleared = TRUE])]
    /\ UNCHANGED <<statvars, per_policy, loadvars, policy, gdbs_data,
                   gov_dbs_data_mutex, dbs, governor_data, cdbs, update_util,
                   hnd, irq_work, gov, sysfs>>

(***************************************************************************)
(* Governor events.  The cpufreq core serialises the events of one policy. *)
(***************************************************************************)
\* The hooks of the policy are installed: it is between start and stop.
Started(p) == \A c \in related_cpus(p) : update_util[c]

\* Lines 380-405: the policy_dbs_info as alloc_policy_dbs_info leaves it.
alloc_policy_dbs_info(p) == [NoPdbs EXCEPT !.dbs_data = NULL]

\* (Variant of SetCdbs that walks all CPUs of the system.)
SetCdbs_AllCpus(p, val) == [c \in CPUs |-> val]

\* Lines 397-403 / 414-419: the back-references of all related CPUs.
SetCdbs(p, val) ==
    [c \in CPUs |-> IF c \in related_cpus(p) THEN val ELSE cdbs[c]]

\* kzalloc(sizeof(*dbs_data)): a free object, if there is one.
FreeDbsIds == {d \in DbsIds : ~dbs[d].live}

\* (Variant of HwLatency: a latency below 1 us stays 0.)
HwLatency_Zero(p) == transition_latency(p) \div 1000

\* Lines 502-511: the rates the first domain derives from the HW latency.
HwLatency(p) ==
    LET latency == transition_latency(p) \div 1000
    IN IF latency = 0 THEN 1 ELSE latency

InitMinSamplingRate(p, gov_min) ==
    Max(gov_min, MIN_LATENCY_MULTIPLIER * HwLatency(p))

InitSamplingRate(p, gov_min) ==
    Max(InitMinSamplingRate(p, gov_min), LATENCY_MULTIPLIER * HwLatency(p))

\* Lines 423-430: gov_attr_set_init.
gov_attr_set_init(ds, p) ==
    [ds EXCEPT !.live = TRUE, !.usage_count = 1, !.policy_list = <<p>>,
               !.update_lock = NULL]

\* Lines 432-439: gov_attr_set_get (list_add puts the node at the head).
\* (Variant that forgets the count.)
gov_attr_set_get_NoCount(ds, p) == [ds EXCEPT !.policy_list = <<p>> \o @]

gov_attr_set_get(ds, p) ==
    [ds EXCEPT !.usage_count = @ + 1, !.policy_list = <<p>> \o @]

\* Lines 446-448: gov_attr_set_put, up to the unlock.
ListDel(list, p) == SelectSeq(list, LAMBDA q : q # p)

\* (Variant of gov_attr_set_put that forgets the count.)
gov_attr_set_put_NoCount(ds, p) == [ds EXCEPT !.policy_list = ListDel(@, p)]

gov_attr_set_put(ds, p) ==
    [ds EXCEPT !.usage_count = @ - 1, !.policy_list = ListDel(@, p)]

\* Lines 513-514: the new dbs_data becomes the governor's global one unless
\* the tunables are per policy.
\* (Variant that never publishes.)
PublishGdbsData_Never(d) == gdbs_data

\* (Variant that publishes the dbs_data in per-policy mode too.)
PublishGdbsData_Always(d) == d

PublishGdbsData(d) == IF per_policy THEN gdbs_data ELSE d

\* The minimum sampling rates gov->init() may set (0: it sets none).
GovMinRates == {0, 2 * MIN_LATENCY_MULTIPLIER}

\* The event op of policy p returns ret to the cpufreq core.
Return(p, op, ret) ==
    [gov EXCEPT ![p].pc = "return", ![p].op = op, ![p].ret = ret,
                ![p].rate = 0]

\* The cpufreq core takes the result.
GovReturn(p) ==
    /\ gov[p].pc = "return"
    /\ gov' = [gov EXCEPT ![p].pc = "idle", ![p].op = "none",
                          ![p].ret = "none"]
    /\ policy' = [policy EXCEPT ![p].driver_calls = <<>>]
    /\ UNCHANGED <<statvars, per_policy, loadvars, gdbs_data, gov_dbs_data_mutex, dbs,
                   governor_data, pdbs, cdbs, update_util, hnd, irq_work,
                   work, sysfs>>

\* Which call of cpufreq_governor_init fails, if it is reached: gov->alloc(),
\* kzalloc(), gov->init(), kobject_init_and_add(), or none.
InitFailures == {"ok", "alloc", "kzalloc", "gov_init", "kobject"}

\* (Variant of AlreadyInitialized: the test of line 467 left out.)
AlreadyInitialized_Never(p) == FALSE

\* Line 467: policy->governor_data is set.
AlreadyInitialized(p) == governor_data[p]

\* cpufreq_governor_init; gov_min is the minimum rate gov->init() sets.
\* Lines 467-472 run before gov_dbs_data_mutex is taken at line 475.
cpufreq_governor_init(p, fails, gov_min) ==
    /\ gov[p].pc = "idle"
    /\ IF AlreadyInitialized(p) THEN
         /\ gov' = Return(p, "init", "EBUSY")
         /\ UNCHANGED <<gdbs_data, dbs, governor_data, pdbs, cdbs>>
       ELSE IF fails = "alloc" THEN
         /\ gov' = Return(p, "init", "ENOMEM")
         /\ UNCHANGED <<gdbs_data, dbs, governor_data, pdbs, cdbs>>
       ELSE
         /\ gov_dbs_data_mutex = NULL
         /\ IF gdbs_data # NULL THEN
              IF per_policy THEN
                /\ gov' = Return(p, "init", "EINVAL")
                /\ cdbs' = SetCdbs(p, NoCdbs)
                /\ UNCHANGED <<gdbs_data, dbs, governor_data, pdbs>>
              ELSE
                /\ dbs[gdbs_data].update_lock = NULL
                /\ pdbs' = [pdbs EXCEPT ![p] =
                              [alloc_policy_dbs_info(p)
                                 EXCEPT !.dbs_data = gdbs_data]]
                /\ governor_data' = [governor_data EXCEPT ![p] = TRUE]
                /\ dbs' = [dbs EXCEPT ![gdbs_data] = gov_attr_set_get(@, p)]
                /\ cdbs' = SetCdbs(p, [policy_dbs |-> p, func |-> TRUE])
                /\ gov' = Return(p, "init", "ok")
                /\ UNCHANGED gdbs_data
            ELSE IF fails = "kzalloc" \/ FreeDbsIds = {} THEN
              /\ gov' = Return(p, "init", "ENOMEM")
              /\ cdbs' = SetCdbs(p, NoCdbs)
              /\ UNCHANGED <<gdbs_data, dbs, governor_data, pdbs>>
            ELSE
              LET d == CHOOSE x \in FreeDbsIds : TRUE
                  fresh == gov_attr_set_init(NoDbs, p)
              IN
              IF fails = "gov_init" THEN
                \* goto free_policy_dbs_info: dbs_data is not freed.
                /\ dbs' = [dbs EXCEPT ![d] = fresh]
                /\ gov' = Return(p, "init", "EGOVINIT")
                /\ cdbs' = SetCdbs(p, NoCdbs)
                /\ UNCHANGED <<gdbs_data, governor_data, pdbs>>
              ELSE IF fails = "kobject" THEN
                \* The roll-back of lines 526-537.
                /\ gov' = Return(p, "init", "EKOBJ")
                /\ cdbs' = SetCdbs(p, NoCdbs)
                /\ UNCHANGED <<gdbs_data, dbs, governor_data, pdbs>>
              ELSE
                /\ dbs' = [dbs EXCEPT ![d] =
                             [fresh EXCEPT
                                !.min_sampling_rate =
                                    InitMinSamplingRate(p, gov_min),
                                !.sampling_rate = InitSamplingRate(p, gov_min),
                                !.kobj = TRUE]]
                /\ gdbs_data' = PublishGdbsData(d)
                /\ pdbs' = [pdbs EXCEPT ![p] =
                              [alloc_policy_dbs_info(p) EXCEPT !.dbs_data = d]]
                /\ governor_data' = [governor_data EXCEPT ![p] = TRUE]
                /\ cdbs' = SetCdbs(p, [policy_dbs |-> p, func |-> TRUE])
                /\ gov' = Return(p, "init", "ok")
    /\ UNCHANGED <<statvars, per_policy, loadvars, policy, gov_dbs_data_mutex,
                   update_util, hnd, irq_work, work, sysfs>>

\* cpufreq_governor_exit, lines 544-554 with gov_attr_set_put up to its
\* unlock; when other domains remain, also the rest (lines 556, 566-569).
cpufreq_governor_exit(p) ==
    LET d == pdbs[p].dbs_data IN
    /\ gov[p].pc = "idle"
    /\ governor_data[p]
    /\ gov_dbs_data_mutex = NULL
    /\ dbs[d].update_lock = NULL
    /\ dbs' = [dbs EXCEPT ![d] = gov_attr_set_put(@, p)]
    /\ IF dbs'[d].usage_count # 0 THEN
         /\ governor_data' = [governor_data EXCEPT ![p] = FALSE]
         /\ pdbs' = [pdbs EXCEPT ![p] = NoPdbs]
         /\ cdbs' = SetCdbs(p, NoCdbs)
         /\ gov' = Return(p, "exit", "ok")
         /\ UNCHANGED gov_dbs_data_mutex
       ELSE
         /\ gov_dbs_data_mutex' = p
         /\ gov' = [gov EXCEPT ![p].pc = "exit_kobject_put"]
         /\ UNCHANGED <<governor_data, pdbs, cdbs>>
    /\ UNCHANGED <<statvars, per_policy, loadvars, policy, gdbs_data, update_util, hnd,
                   irq_work, work, sysfs>>

\* Lines 453-455 and 556-569: the last domain has left.  kobject_put()
\* removes the sysfs directory, which waits for a store in progress.
ExitLast(p) ==
    LET d == pdbs[p].dbs_data IN
    /\ gov[p].pc = "exit_kobject_put"
    /\ sysfs.dbs # d
    /\ governor_data' = [governor_data EXCEPT ![p] = FALSE]
    /\ gdbs_data' = IF per_policy THEN gdbs_data ELSE NULL
    /\ dbs' = [dbs EXCEPT ![d] = NoDbs]
    /\ pdbs' = [pdbs EXCEPT ![p] = NoPdbs]
    /\ cdbs' = SetCdbs(p, NoCdbs)
    /\ gov_dbs_data_mutex' = NULL
    /\ gov' = Return(p, "exit", "ok")
    /\ UNCHANGED <<statvars, per_policy, loadvars, policy, update_util, hnd, irq_work,
                   work, sysfs>>

\* (Variant of StartSnapshot that leaves prev_load as it is.)
StartSnapshot_KeepsLoad(jc, cur, ignore_nice) ==
    [prev_cpu_wall |-> cur.wall, prev_cpu_idle |-> cur.idle,
     prev_cpu_nice |-> IF ignore_nice THEN cur.nice ELSE jc.prev_cpu_nice,
     prev_load |-> jc.prev_load]

\* Lines 590-600: start takes the snapshot of the counters of CPU j and
\* clears prev_load; prev_cpu_nice is taken only with ignore_nice_load.
StartSnapshot(jc, cur, ignore_nice) ==
    [prev_cpu_wall |-> cur.wall, prev_cpu_idle |-> cur.idle,
     prev_cpu_nice |-> IF ignore_nice THEN cur.nice ELSE jc.prev_cpu_nice,
     prev_load |-> 0]

\* (Variant of StartAllowed without the test of policy->cur.)
StartAllowed_Always(pol) == TRUE

\* Lines 580-581: start needs a current frequency.
StartAllowed(pol) == pol.cur # 0

\* cpufreq_governor_start, lines 572-603: the tunables are read, the
\* policy_dbs prepared and gov->start() called.  stat gives the counters of
\* each CPU at the call, ignore_nice is dbs_data->ignore_nice_load.
cpufreq_governor_start(p, stat, ignore_nice) ==
    /\ gov[p].pc = "idle"
    /\ governor_data[p]
    /\ IF ~StartAllowed(policy[p])
         THEN /\ gov' = Return(p, "start", "EINVAL")
              /\ UNCHANGED <<pdbs, cdbs_prev, sample>>
         ELSE /\ pdbs' = [pdbs EXCEPT ![p].is_shared = policy_is_shared(p),
                                      ![p].rate_mult = 1]
              /\ cdbs_prev' =
                    [c \in CPUs |->
                       IF c \in related_cpus(p)
                       THEN StartSnapshot(cdbs_prev[c], stat[c], ignore_nice)
                       ELSE cdbs_prev[c]]
              /\ sample' = [sample EXCEPT !.updates = 0]
              /\ gov' = [gov EXCEPT
                           ![p].pc = "start_set_update_util",
                           ![p].rate = dbs[pdbs[p].dbs_data].sampling_rate]
    /\ UNCHANGED <<statvars, per_policy, policy, gdbs_data, gov_dbs_data_mutex,
                   dbs, governor_data, cdbs, update_util, hnd, irq_work, work,
                   sysfs>>

\* Lines 256-270 and 605-606: gov_set_update_util.
gov_set_update_util(p) ==
    /\ gov[p].pc = "start_set_update_util"
    /\ pdbs' = [pdbs EXCEPT ![p] =
                  [gov_update_sample_delay(@, gov[p].rate)
                     EXCEPT !.last_sample_time = 0]]
    /\ update_util' = [c \in CPUs |->
                         IF c \in related_cpus(p) THEN TRUE ELSE update_util[c]]
    /\ gov' = [Return(p, "start", "ok") EXCEPT ![p].stored = FALSE]
    /\ UNCHANGED <<statvars, per_policy, loadvars, policy, gdbs_data,
                   gov_dbs_data_mutex, dbs, governor_data, cdbs, hnd,
                   irq_work, work, sysfs>>

\* (Variant of cpufreq_governor_stop that takes the timer mutex before it
\* waits.)
cpufreq_governor_stop_Locked(p) ==
    /\ gov[p].pc = "idle"
    /\ governor_data[p]
    /\ TimerMutexFree(pdbs[p])
    /\ pdbs' = [pdbs EXCEPT ![p].timer_mutex = "stop"]
    /\ update_util' = [c \in CPUs |->
                         IF c \in related_cpus(p) THEN FALSE ELSE update_util[c]]
    /\ gov' = [gov EXCEPT ![p].pc = "stop_synchronize_rcu",
                          ![p].stored = FALSE]
    /\ UNCHANGED <<statvars, per_policy, loadvars, policy, gdbs_data,
                   gov_dbs_data_mutex, dbs, governor_data, cdbs, hnd,
                   irq_work, work, sysfs>>

\* cpufreq_governor_stop -> gov_cancel_work -> gov_clear_update_util,
\* lines 276-277: the hooks are retracted.
cpufreq_governor_stop(p) ==
    /\ gov[p].pc = "idle"
    /\ governor_data[p]
    /\ update_util' = [c \in CPUs |->
                         IF c \in related_cpus(p) THEN FALSE ELSE update_util[c]]
    /\ gov' = [gov EXCEPT ![p].pc = "stop_synchronize_rcu",
                          ![p].stored = FALSE]
    /\ UNCHANGED <<statvars, per_policy, loadvars, policy, gdbs_data,
                   gov_dbs_data_mutex, dbs, governor_data, pdbs, cdbs, hnd,
                   irq_work, work, sysfs>>

\* Line 279: synchronize_rcu() returns once every invocation of the hook
\* that was running has returned.
\* (Variant that does not wait.)
RcuGracePeriodOver_NoWait(p) == TRUE

RcuGracePeriodOver(p) == \A c \in related_cpus(p) : hnd[c].pc = "idle"

StopSynchronizeRcu(p) ==
    /\ gov[p].pc = "stop_synchronize_rcu"
    /\ RcuGracePeriodOver(p)
    /\ gov' = [gov EXCEPT ![p].pc = "stop_irq_work_sync"]
    /\ UNCHANGED <<statvars, per_policy, loadvars, policy, gdbs_data,
                   gov_dbs_data_mutex, dbs, governor_data, pdbs, cdbs,
                   update_util, hnd, irq_work, work, sysfs>>

\* Line 287: irq_work_sync() returns once the irq_work is not pending.
StopIrqWorkSync(p) ==
    /\ gov[p].pc = "stop_irq_work_sync"
    /\ ~irq_work[p]
    /\ gov' = [gov EXCEPT ![p].pc = "stop_cancel_work_sync"]
    /\ UNCHANGED <<statvars, per_policy, loadvars, policy, gdbs_data,
                   gov_dbs_data_mutex, dbs, governor_data, pdbs, cdbs,
                   update_util, hnd, irq_work, work, sysfs>>

\* Line 288: cancel_work_sync() takes the work off the queue and returns
\* once its handler is not running.
\* (Variant that does not wait for the handler.)
WorkHandlerFlushed_NoWait(p) == TRUE

WorkHandlerFlushed(p) == work[p].pc = "idle"

StopCancelWorkSync(p) ==
    /\ gov[p].pc = "stop_cancel_work_sync"
    /\ WorkHandlerFlushed(p)
    /\ work' = [work EXCEPT ![p].pending = FALSE]
    /\ gov' = [gov EXCEPT ![p].pc = "stop_clear_count"]
    /\ UNCHANGED <<statvars, per_policy, loadvars, policy, gdbs_data,
                   gov_dbs_data_mutex, dbs, governor_data, pdbs, cdbs,
                   update_util, hnd, irq_work, sysfs>>

\* Line 289: atomic_set(&policy_dbs->work_count, 0).
StopClearCount(p) ==
    /\ gov[p].pc = "stop_clear_count"
    /\ pdbs' = [pdbs EXCEPT ![p].work_count = 0]
    /\ gov' = [gov EXCEPT ![p].pc = "stop_clear_wip"]
    /\ UNCHANGED <<statvars, per_policy, loadvars, policy, gdbs_data,
                   gov_dbs_data_mutex, dbs, governor_data, cdbs, update_util,
                   hnd, irq_work, work, sysfs>>

\* (Variant of StopClearWip that returns without the assignment.)
StopClearWip_Keeps(p) ==
    /\ gov[p].pc = "stop_clear_wip"
    /\ gov' = Return(p, "stop", "ok")
    /\ UNCHANGED <<statvars, per_policy, loadvars, policy, gdbs_data,
                   gov_dbs_data_mutex, dbs, governor_data, pdbs, cdbs,
                   update_util, hnd, irq_work, work, sysfs>>

\* Line 290: work_in_progress = false; stop returns 0.
StopClearWip(p) ==
    /\ gov[p].pc = "stop_clear_wip"
    /\ pdbs' = [pdbs EXCEPT ![p].work_in_progress = FALSE]
    /\ gov' = Return(p, "stop", "ok")
    /\ UNCHANGED <<statvars, per_policy, loadvars, policy, gdbs_data,
                   gov_dbs_data_mutex, dbs, governor_data, cdbs, update_util,
                   hnd, irq_work, work, sysfs>>

\* cpufreq_governor_limits, line 619: mutex_lock(&policy_dbs->timer_mutex).
cpufreq_governor_limits(p) ==
    /\ gov[p].pc = "idle"
    /\ governor_data[p]
    /\ TimerMutexFree(pdbs[p])
    /\ pdbs' = [pdbs EXCEPT ![p].timer_mutex = "limits"]
    /\ gov' = [gov EXCEPT ![p].pc = "limits_locked"]
    /\ UNCHANGED <<statvars, per_policy, loadvars, policy, gdbs_data,
                   gov_dbs_data_mutex, dbs, governor_data, cdbs, update_util,
                   hnd, irq_work, work, sysfs>>

\* __cpufreq_driver_target(policy, target_freq, relation): the driver is
\* called and sets the frequency of its table the relation selects, which is
\* target_freq when the table has it.
cpufreq_driver_target(pol, target_freq, relation) ==
    [pol EXCEPT !.cur = target_freq,
                !.driver_calls = Append(@, <<target_freq, relation>>)]

\* Lines 621-624: the current frequency is brought into the new limits.
\* (Variant with the two tests swapped.)
LimitsClamp_Swapped(pol) ==
    IF pol.max > pol.cur
      THEN cpufreq_driver_target(pol, pol.max, "CPUFREQ_RELATION_H")
    ELSE IF pol.min < pol.cur
      THEN cpufreq_driver_target(pol, pol.min, "CPUFREQ_RELATION_L")
    ELSE pol

LimitsClamp(pol) ==
    IF pol.max < pol.cur
      THEN cpufreq_driver_target(pol, pol.max, "CPUFREQ_RELATION_H")
    ELSE IF pol.min > pol.cur
      THEN cpufreq_driver_target(pol, pol.min, "CPUFREQ_RELATION_L")
    ELSE pol

\* (Variant of LimitsLocked that resets the sample delay only when it has
\* called the driver.)
LimitsLocked_DelayIfClamped(p) ==
    /\ gov[p].pc = "limits_locked"
    /\ policy' = [policy EXCEPT ![p] = LimitsClamp(@)]
    /\ pdbs' = [pdbs EXCEPT ![p] =
                  [(IF policy'[p] = policy[p] THEN @
                    ELSE gov_update_sample_delay(@, 0))
                     EXCEPT !.timer_mutex = NULL]]
    /\ gov' = Return(p, "limits", "ok")
    /\ UNCHANGED <<statvars, per_policy, loadvars, gdbs_data, gov_dbs_data_mutex, dbs,
                   governor_data, cdbs, update_util, hnd, irq_work, work,
                   sysfs>>

\* Lines 621-630: the frequency is clamped and the sample delay reset under
\* the timer mutex.
LimitsLocked(p) ==
    /\ gov[p].pc = "limits_locked"
    /\ policy' = [policy EXCEPT ![p] = LimitsClamp(@)]
    /\ pdbs' = [pdbs EXCEPT ![p] =
                  [gov_update_sample_delay(@, 0) EXCEPT !.timer_mutex = NULL]]
    /\ gov' = Return(p, "limits", "ok")
    /\ UNCHANGED <<statvars, per_policy, loadvars, gdbs_data, gov_dbs_data_mutex, dbs,
                   governor_data, cdbs, update_util, hnd, irq_work, work,
                   sysfs>>

(***************************************************************************)
(* The sysfs store of sampling_rate: governor_store and                    *)
(* store_sampling_rate.                                                    *)
(***************************************************************************)
Digits == <<"0", "1", "2", "3", "4", "5", "6", "7", "8", "9">>

IsDigit(ch) == \E i \in 1..10 : Digits[i] = ch

DigitVal(ch) == (CHOOSE i \in 1..10 : Digits[i] = ch) - 1

IsSpace(ch) == ch \in {" ", "\n", "\t"}

RECURSIVE SkipSpaces(_)
SkipSpaces(buf) ==
    IF buf # <<>> /\ IsSpace(Head(buf)) THEN SkipSpaces(Tail(buf)) ELSE buf

\* The digits at the head of buf, as simple_strtoul accumulates them.
RECURSIVE StrToUl(_, _)
StrToUl(buf, acc) ==
    IF buf # <<>> /\ IsDigit(Head(buf))
      THEN StrToUl(Tail(buf), acc * 10 + DigitVal(Head(buf)))
      ELSE acc

\* sscanf(buf, "%u", &rate): the number of conversions and the value stored
\* (every number of Bufs fits the unsigned int).
sscanf_u(buf) ==
    LET str == SkipSpaces(buf) IN
    IF str = <<>> \/ ~IsDigit(Head(str))
      THEN [ret |-> 0, val |-> 0]
      ELSE [ret |-> 1, val |-> StrToUl(str, 0)]

\* What is written to the attribute.
Bufs == { <<"x">>, <<"7">>, <<"4", "0", "\n">> }

\* A write(2) to the attribute of dbs_data d enters governor_store.
StoreEnter(d, buf) ==
    /\ sysfs.pc = "idle"
    /\ dbs[d].kobj
    /\ sysfs' = [IdleSysfs EXCEPT !.pc = "lock", !.dbs = d, !.buf = buf]
    /\ UNCHANGED <<statvars, per_policy, loadvars, policy, gdbs_data,
                   gov_dbs_data_mutex, dbs, governor_data, pdbs, cdbs,
                   update_util, hnd, irq_work, work, gov>>

\* The write(2) returns.
StoreReturn ==
    /\ sysfs.pc = "return"
    /\ sysfs' = IdleSysfs
    /\ UNCHANGED <<statvars, per_policy, loadvars, policy, gdbs_data,
                   gov_dbs_data_mutex, dbs, governor_data, pdbs, cdbs,
                   update_util, hnd, irq_work, work, gov>>

\* Line 139: mutex_lock(&attr_set->update_lock).
StoreLock ==
    /\ sysfs.pc = "lock"
    /\ dbs[sysfs.dbs].update_lock = NULL
    /\ dbs' = [dbs EXCEPT ![sysfs.dbs].update_lock = "store"]
    /\ sysfs' = [sysfs EXCEPT !.pc = "locked"]
    /\ UNCHANGED <<statvars, per_policy, loadvars, policy, gdbs_data,
                   gov_dbs_data_mutex, governor_data, pdbs, cdbs, update_util,
                   hnd, irq_work, work, gov>>

\* Lines 53-54: anything but one converted number is -EINVAL.
\* (Variant without the check: the rate is stored whatever was converted.)
InputAccepted_Always(parsed) == TRUE

InputAccepted(parsed) == parsed.ret = 1

\* Line 56: the rate store_sampling_rate stores.
\* (Variant without the max().)
NewSamplingRate_Unclamped(ds, rate) == rate

NewSamplingRate(ds, rate) == Max(rate, ds.min_sampling_rate)

\* Line 141: the attribute's store is called only for a set in use.
\* (Variant without the test of usage_count.)
StoreAllowed_Always(ds) == TRUE

StoreAllowed(ds) == ds.usage_count # 0

\* Line 77: gov_update_sample_delay(policy_dbs, 0) for a list entry.
\* (Variant that leaves the delay as it is.)
StoreResetDelay_Skipped(pd) == pd

StoreResetDelay(pd) == gov_update_sample_delay(pd, 0)

\* Lines 141-142 and 52-56: the usage count is checked, the attribute's
\* store called; an error unlocks and returns.
StoreLocked ==
    LET d == sysfs.dbs
        parsed == sscanf_u(sysfs.buf)
    IN
    /\ sysfs.pc = "locked"
    /\ IF ~StoreAllowed(dbs[d]) THEN
         /\ dbs' = [dbs EXCEPT ![d].update_lock = NULL]
         /\ sysfs' = [IdleSysfs EXCEPT !.pc = "return", !.ret = "EBUSY"]
       ELSE IF ~InputAccepted(parsed) THEN
         /\ dbs' = [dbs EXCEPT ![d].update_lock = NULL]
         /\ sysfs' = [IdleSysfs EXCEPT !.pc = "return", !.calls = 1,
                                       !.ret = "EINVAL"]
       ELSE IF dbs[d].policy_list = <<>> THEN
         \* An empty list: the loop of lines 62-79 has no iteration.
         /\ dbs' = [dbs EXCEPT ![d].sampling_rate =
                                   NewSamplingRate(dbs[d], parsed.val),
                               ![d].update_lock = NULL]
         /\ sysfs' = [IdleSysfs EXCEPT !.pc = "return", !.calls = 1,
                                       !.ret = "count"]
       ELSE
         /\ dbs' = [dbs EXCEPT ![d].sampling_rate =
                                   NewSamplingRate(dbs[d], parsed.val)]
         /\ sysfs' = [sysfs EXCEPT !.pc = "walk_lock", !.buf = <<>>,
                                   !.calls = 1,
                                   !.walk = dbs[d].policy_list]
    /\ UNCHANGED <<statvars, per_policy, loadvars, policy, gdbs_data,
                   gov_dbs_data_mutex, governor_data, pdbs, cdbs, update_util,
                   hnd, irq_work, work, gov>>

\* Line 63: mutex_lock(&policy_dbs->timer_mutex) of the next list entry.
StoreWalkLock ==
    LET p == Head(sysfs.walk) IN
    /\ sysfs.pc = "walk_lock"
    /\ TimerMutexFree(pdbs[p])
    /\ pdbs' = [pdbs EXCEPT ![p].timer_mutex = "store"]
    /\ sysfs' = [sysfs EXCEPT !.pc = "walk_locked"]
    /\ UNCHANGED <<statvars, per_policy, loadvars, policy, gdbs_data,
                   gov_dbs_data_mutex, dbs, governor_data, cdbs, update_util,
                   hnd, irq_work, work, gov>>

\* (Variant of StoreUnlockTimer: the timer mutex is kept.)
StoreUnlockTimer_Held(pd) == pd

\* Line 78: mutex_unlock(&policy_dbs->timer_mutex).
StoreUnlockTimer(pd) == [pd EXCEPT !.timer_mutex = NULL]

\* Lines 77-81 and 144-146: the delay of the entry is reset; after the last
\* entry the update lock is released and the store returns count.
StoreWalkLocked ==
    LET p == Head(sysfs.walk)
        rest == Tail(sysfs.walk)
    IN
    /\ sysfs.pc = "walk_locked"
    /\ pdbs' = [pdbs EXCEPT ![p] = StoreUnlockTimer(StoreResetDelay(@))]
    /\ gov' = [gov EXCEPT ![p].stored = Started(p)]
    /\ IF rest = <<>>
         THEN /\ dbs' = [dbs EXCEPT ![sysfs.dbs].update_lock = NULL]
              /\ sysfs' = [IdleSysfs EXCEPT !.pc = "return",
                                            !.calls = sysfs.calls,
                                            !.ret = "count"]
         ELSE /\ dbs' = dbs
              /\ sysfs' = [sysfs EXCEPT !.pc = "walk_lock", !.walk = rest]
    /\ UNCHANGED <<statvars, per_policy, loadvars, policy, gdbs_data,
                   gov_dbs_data_mutex, governor_data, cdbs, update_util, hnd,
                   irq_work, work>>

(***************************************************************************)
(* The cpufreq core calls the events of a policy in the order init, start, *)
(* (limits)*, stop, ..., exit.                                             *)
(***************************************************************************)
FastPath(c) ==
    \/ \E time \in Times : HandlerEnter(c, time)
    \/ HandlerReadLst(c)
    \/ HandlerCheckDelay(c)
    \/ HandlerClaim(c)
    \/ HandlerRecheck(c)
    \/ HandlerSetLst(c)
    \/ HandlerSetWip(c)
    \/ HandlerQueue(c)

SlowPath(p) ==
    \/ dbs_irq_work(p)
    \/ WorkStart(p)
    \/ WorkLock(p)
    \/ WorkDecide(p)
    \/ WorkSetDelay(p)
    \/ WorkClearCount(p)
    \/ WorkClearWip(p)

(***************************************************************************)
(* dbs_update, lines 161-253: the load of a policy.                        *)
(***************************************************************************)
\* The width of unsigned int in the model; wall_time, idle_time, load and
\* sampling_rate are unsigned int and wrap at this width.
UINT_BITS == 21

Uint(x) == x % (2 ^ UINT_BITS)

USEC_PER_SEC == 1000000
HZ == 100

\* cputime_to_usecs with jiffies-based cputime: ticks of 1/HZ s.
cputime_to_usecs(ct) == ct * (USEC_PER_SEC \div HZ)

\* for_each_cpu(j, policy->cpus) visits the CPUs in ascending order.
policy_cpus(p) == IF p = "p1" THEN <<"c1", "c2">> ELSE <<"c3">>

\* (Variant of Skipped without the comparison with idle_time.)
Skipped_ZeroOnly(wall_time, idle_time) == wall_time = 0

\* Line 205: the CPU is left out of this sample.
Skipped(wall_time, idle_time) == wall_time = 0 \/ wall_time < idle_time

\* Lines 234-235: a long window and a load remembered from the one before.
IdleWake(wall_time, sampling_rate, prev_load) ==
    wall_time > Uint(2 * sampling_rate) /\ prev_load # 0

\* (Variant of ReusePrevLoad: the copy is not destructive.)
ReusePrevLoad_Kept(jc) == jc

\* Line 243: the destructive copy.
ReusePrevLoad(jc) == [jc EXCEPT !.prev_load = 0]

\* Line 245.
ComputeLoad(wall_time, idle_time) ==
    Uint(100 * (wall_time - idle_time)) \div wall_time

\* (Variant of MaxLoad: the load of the CPU visited last.)
MaxLoad_Last(max_load, load) == load

\* Lines 249-250.
MaxLoad(max_load, load) == IF load > max_load THEN load ELSE max_load

\* The body of the loop, lines 185-247, for one CPU: jc is its cpu_dbs, cur
\* its counters now.  Gives the cpu_dbs afterwards, the load (NoLoad when the
\* CPU is skipped) and whether the load is the one remembered.
dbs_update_cpu(jc, cur, sampling_rate, ignore_nice) ==
    LET wall_time == Uint(cur.wall - jc.prev_cpu_wall)
        idle_delta == Uint(cur.idle - jc.prev_cpu_idle)
        idle_time ==
            IF ignore_nice
            THEN Uint(idle_delta
                        + cputime_to_usecs(cur.nice - jc.prev_cpu_nice))
            ELSE idle_delta
        snap == [jc EXCEPT !.prev_cpu_wall = cur.wall,
                           !.prev_cpu_idle = cur.idle,
                           !.prev_cpu_nice =
                               IF ignore_nice THEN cur.nice ELSE @]
    IN
    IF Skipped(wall_time, idle_time) THEN
        [cdbs |-> snap, load |-> NoLoad, reused |-> FALSE]
    ELSE IF IdleWake(wall_time, sampling_rate, jc.prev_load) THEN
        [cdbs |-> ReusePrevLoad(snap), load |-> jc.prev_load,
         reused |-> TRUE]
    ELSE
        [cdbs |-> [snap EXCEPT !.prev_load =
                                   ComputeLoad(wall_time, idle_time)],
         load |-> ComputeLoad(wall_time, idle_time), reused |-> FALSE]

\* The loop of lines 184-251 over the CPUs js, with max_load so far.
RECURSIVE dbs_update_loop(_, _, _)
dbs_update_loop(js, res, max_load) ==
    IF js = <<>> THEN max_load
    ELSE LET load == res[Head(js)].load IN
         dbs_update_loop(Tail(js), res,
                         IF load = NoLoad THEN max_load
                         ELSE MaxLoad(max_load, load))

\* dbs_update(policy), called by the governor's gov_dbs_timer for a started
\* policy.  stat gives the counters of each CPU, ignore_nice is
\* dbs_data->ignore_nice_load.
dbs_update(p, stat, ignore_nice) ==
    LET sampling_rate ==
            Uint(dbs[pdbs[p].dbs_data].sampling_rate * pdbs[p].rate_mult)
        res == [c \in related_cpus(p) |->
                   dbs_update_cpu(cdbs_prev[c], stat[c], sampling_rate,
                                  ignore_nice)]
    IN
    /\ gov[p].pc = "idle"
    /\ Started(p)
    /\ ~sample.done
    /\ cdbs_prev' = [c \in CPUs |->
                       IF c \in related_cpus(p) THEN res[c].cdbs
                       ELSE cdbs_prev[c]]
    /\ sample' =
         [done |-> TRUE,
          max_load |-> dbs_update_loop(policy_cpus(p), res, 0),
          load |-> [c \in CPUs |->
                      IF c \in related_cpus(p) THEN res[c].load ELSE NoLoad],
          reused |-> [c \in CPUs |->
                        IF c \in related_cpus(p) /\ res[c].load # NoLoad
                        THEN IF res[c].reused THEN "once"
                             ELSE IF sample.reused[c] = "once" THEN "after"
                             ELSE "no"
                        ELSE sample.reused[c]],
          updates |-> IF sample.updates = 0 THEN 1 ELSE 2,
          stat |-> stat,
          ignore_nice |-> ignore_nice,
          sampling_rate |-> sampling_rate]
    /\ UNCHANGED <<statvars, per_policy, policy, gdbs_data, gov_dbs_data_mutex, dbs,
                   governor_data, pdbs, cdbs, update_util, hnd, irq_work,
                   work, gov, sysfs>>

\* The governor has used the value dbs_update returned.
UpdateReturn ==
    /\ sample.done
    /\ sample' = [NoSample EXCEPT !.reused = sample.reused,
                                  !.updates = sample.updates]
    /\ UNCHANGED <<statvars, per_policy, cdbs_prev, policy, gdbs_data,
                   gov_dbs_data_mutex, dbs, governor_data, pdbs, cdbs,
                   update_util, hnd, irq_work, work, gov, sysfs>>

\* The counters of every CPU at zero.
BootStat == [c \in CPUs |-> [wall |-> 0, idle |-> 0, nice |-> 0]]

CoreInit(p) ==
    /\ ~governor_data[p]
    /\ cpufreq_governor_init(p, "ok", 0)

CoreExit(p) ==
    \/ ~Started(p) /\ cpufreq_governor_exit(p)
    \/ ExitLast(p)

CoreStart(p) ==
    \/ ~Started(p) /\ cpufreq_governor_start(p, BootStat, FALSE)
    \/ gov_set_update_util(p)

CoreStop(p) ==
    \/ Started(p) /\ cpufreq_governor_stop(p)
    \/ StopSynchronizeRcu(p)
    \/ StopIrqWorkSync(p)
    \/ StopCancelWorkSync(p)
    \/ StopClearCount(p)
    \/ StopClearWip(p)

CoreLimits(p) ==
    \/ Started(p) /\ cpufreq_governor_limits(p)
    \/ LimitsLocked(p)

\* The cpufreq core (cpufreq_set_policy) gives a started policy new limits;
\* it calls the governor's limits afterwards.
CoreSetLimits(p) ==
    /\ gov[p].pc = "idle"
    /\ Started(p)
    /\ \E mn, mx \in Freqs :
          /\ mn <= mx
          /\ policy' = [policy EXCEPT ![p].min = mn, ![p].max = mx]
    /\ UNCHANGED <<statvars, per_policy, loadvars, gdbs_data, gov_dbs_data_mutex, dbs,
                   governor_data, pdbs, cdbs, update_util, hnd, irq_work,
                   work, gov, sysfs>>

\* The events of cpufreq_governor_dbs other than CPUFREQ_GOV_POLICY_INIT.
OtherEvents == {"exit", "start", "stop", "limits"}

\* (Variant of cpufreq_governor_dbs_invalid: without the test of line 637 an
\* exit puts the system-wide dbs_data once more.)
cpufreq_governor_dbs_invalid_Put(p, event) ==
    /\ gov[p].pc = "idle"
    /\ ~governor_data[p]
    /\ gov' = Return(p, event, IF event = "exit" THEN "ok" ELSE "EINVAL")
    /\ dbs' = IF event = "exit" /\ gdbs_data # NULL
              THEN [dbs EXCEPT ![gdbs_data].usage_count = @ - 1]
              ELSE dbs
    /\ UNCHANGED <<statvars, per_policy, loadvars, policy, gdbs_data,
                   gov_dbs_data_mutex, governor_data, pdbs, cdbs, update_util,
                   hnd, irq_work, work, sysfs>>

\* Lines 637 and 649: an event other than init for a policy whose
\* governor_data is NULL falls through to return -EINVAL.
cpufreq_governor_dbs_invalid(p, event) ==
    /\ gov[p].pc = "idle"
    /\ ~governor_data[p]
    /\ gov' = Return(p, event, "EINVAL")
    /\ UNCHANGED <<statvars, per_policy, loadvars, policy, gdbs_data,
                   gov_dbs_data_mutex, dbs, governor_data, pdbs, cdbs,
                   update_util, hnd, irq_work, work, sysfs>>

CoreInvalid(p) ==
    \E event \in OtherEvents : cpufreq_governor_dbs_invalid(p, event)

SysfsStore(bufs) ==
    \/ \E d \in DbsIds, buf \in bufs : StoreEnter(d, buf)
    \/ StoreLock
    \/ StoreLocked
    \/ StoreWalkLock
    \/ StoreWalkLocked
    \/ StoreReturn

(***************************************************************************)
(* Spec: the shared policy p1 with its two CPUs, every statement of the    *)
(* fast path, the slow path and the governor events interleaved.           *)
(***************************************************************************)
InitSystemWide == Init /\ per_policy = FALSE

Next ==
    \/ CoreInit("p1")
    \/ GovReturn("p1")
    \/ CoreExit("p1")
    \/ CoreStart("p1")
    \/ CoreStop("p1")
    \/ CoreLimits("p1")
    \/ SlowPath("p1")
    \/ \E c \in related_cpus("p1") : FastPath(c)

Spec == InitSystemWide /\ [][Next]_vars

(***************************************************************************)
(* SpecRate: p1 as in Spec, without limits, stop and exit, with the sysfs  *)
(* store of sampling_rate running alongside.                               *)
(***************************************************************************)
RateBufs == { <<"7">>, <<"4", "0", "\n">> }

NextRate ==
    \/ CoreInit("p1")
    \/ GovReturn("p1")
    \/ CoreStart("p1")
    \/ SlowPath("p1")
    \/ \E c \in related_cpus("p1") : FastPath(c)
    \/ SysfsStore(RateBufs)

SpecRate == InitSystemWide /\ [][NextRate]_vars

(***************************************************************************)
(* SpecLimits: the governor events of both policies, with the cpufreq core *)
(* changing the limits of a started policy; the hooks are never called.    *)
(***************************************************************************)
NextLimits ==
    \E p \in Policies :
        \/ CoreInit(p)
        \/ GovReturn(p)
        \/ CoreExit(p)
        \/ CoreStart(p)
        \/ CoreStop(p)
        \/ CoreSetLimits(p)
        \/ CoreLimits(p)

SpecLimits == InitSystemWide /\ [][NextLimits]_vars

(***************************************************************************)
(* SpecLife: both policies, in either mode of the tunables, with every     *)
(* outcome of init, and the sysfs store; the hooks are never called.       *)
(***************************************************************************)
LifeInit(p) ==
    \E fails \in InitFailures, gov_min \in GovMinRates :
        cpufreq_governor_init(p, fails, gov_min)

NextLife ==
    \/ \E p \in Policies :
          \/ LifeInit(p)
          \/ GovReturn(p)
          \/ CoreExit(p)
          \/ CoreStart(p)
          \/ CoreStop(p)
    \/ SysfsStore(Bufs)

SpecLife == Init /\ [][NextLife]_vars

(***************************************************************************)
(* SpecLocks: the one-CPU policy p2 with its fast path, its slow path,     *)
(* start and limits, the sysfs store, and p1 joining and leaving the       *)
(* tunables.                                                               *)
(***************************************************************************)
\* The fast path of a policy that is not shared: lines 362-372 are skipped.
FastPathAlone(c) ==
    \/ \E time \in Times : HandlerEnter(c, time)
    \/ HandlerReadLst(c)
    \/ HandlerCheckDelay(c)
    \/ HandlerSetLst(c)
    \/ HandlerSetWip(c)
    \/ HandlerQueue(c)

NextLocks ==
    \/ CoreInit("p2")
    \/ GovReturn("p2")
    \/ CoreStart("p2")
    \/ CoreLimits("p2")
    \/ SlowPath("p2")
    \/ \E c \in related_cpus("p2") : FastPathAlone(c)
    \/ CoreInit("p1")
    \/ GovReturn("p1")
    \/ CoreExit("p1")
    \/ SysfsStore(RateBufs)

SpecLocks == InitSystemWide /\ [][NextLocks]_vars

(***************************************************************************)
(* SpecLoad: the shared policy p1 is initialized, started and stopped, and *)
(* dbs_update runs for it while it is started, with any counters.          *)
(***************************************************************************)
\* The values of the wall-time, idle-time (us) and nice (ticks) counters of
\* the first CPU of a policy; the other CPUs show fewer values.
WallTimes == {0, 1000, 12000}
IdleTimes == {0, 600}
NiceTimes == {0, 1}

\* The counters CPU c can show at one call; nice is read only with
\* ignore_nice_load.
CpuStats(c, ignore_nice) ==
    IF c = Head(policy_cpus(policy_of(c)))
    THEN [wall : WallTimes, idle : IdleTimes,
          nice : IF ignore_nice THEN NiceTimes ELSE {0}]
    ELSE [wall : {0, 1000}, idle : IdleTimes, nice : {0}]

\* The counters the CPUs can show at one call for a policy; the CPUs of
\* other policies are not read.
StatsOf ==
    [p \in Policies, ignore_nice \in BOOLEAN |->
        {[c \in CPUs |->
             IF c \in related_cpus(p) THEN st[c] ELSE BootStat[c]] :
            st \in {f \in [related_cpus(p) ->
                              CpuStats(Head(policy_cpus(p)), ignore_nice)] :
                        \A c \in related_cpus(p) :
                            f[c] \in CpuStats(c, ignore_nice)}}]

Stats(p, ignore_nice) == StatsOf[p, ignore_nice]

LoadStart(p) ==
    \/ /\ ~Started(p)
       /\ \E ignore_nice \in BOOLEAN :
             \E stat \in Stats(p, ignore_nice) :
                cpufreq_governor_start(p, stat, ignore_nice)
    \/ gov_set_update_util(p)

\* dbs_update runs in the work handler, which stop waits for (line 288):
\* stop is taken up here when no call of dbs_update is in progress.
LoadStop(p) == ~sample.done /\ CoreStop(p)

LoadUpdate(p) ==
    \/ /\ Started(p)
       /\ ~sample.done
       /\ \E ignore_nice \in BOOLEAN :
             \E stat \in Stats(p, ignore_nice) :
                dbs_update(p, stat, ignore_nice)
    \/ UpdateReturn

NextLoad ==
    \/ CoreInit("p1")
    \/ GovReturn("p1")
    \/ LoadStart("p1")
    \/ LoadStop("p1")
    \/ LoadUpdate("p1")

SpecLoad == InitSystemWide /\ [][NextLoad]_vars

(***************************************************************************)
(* SpecEvents: every event for both policies in any order, in either mode  *)
(* of the tunables, with every outcome of init; no sysfs store, no hooks.  *)
(***************************************************************************)
NextEvents ==
    \E p \in Policies :
        \/ LifeInit(p)
        \/ CoreInvalid(p)
        \/ GovReturn(p)
        \/ CoreExit(p)
        \/ CoreStart(p)
        \/ CoreStop(p)

SpecEvents == Init /\ [][NextEvents]_vars

(***************************************************************************)
(* Claims about the escalation gate and stop.                              *)
(***************************************************************************)
\* The hand-offs of the policy that have not finished: the irq_work
\* pending, the work queued, the work handler running.
InFlight(p) ==
    (IF irq_work[p] THEN 1 ELSE 0)
      + (IF work[p].pending THEN 1 ELSE 0)
      + (IF work[p].pc # "idle" THEN 1 ELSE 0)

Escalating(c) == hnd[c].pc \in {"set_lst", "set_wip", "queue"}

\* C1: at most one slow-path execution is queued or running for a domain
\* at any time.
C1_AtMostOneInFlight == \A p \in Policies : InFlight(p) <= 1

\* C2: of the invocations of a shared domain that are due in the same
\* sampling interval (they read last_sample_time before any of them wrote
\* it), only one escalates: an invocation that is escalating read the
\* last_sample_time that no other invocation has written since.
C2_OneEscalationPerInterval ==
    \A c \in CPUs : Escalating(c) => hnd[c].fresh

StopPcs == {"stop_synchronize_rcu", "stop_irq_work_sync",
            "stop_cancel_work_sync", "stop_clear_count", "stop_clear_wip"}

\* C3: once stop has returned, and until the domain is started again, no
\* fast-path invocation runs and no slow-path task of the domain is queued
\* or running, so the decision callback is not called.
C3_NothingAfterStop ==
    \A p \in Policies :
        (~Started(p) /\ gov[p].pc \notin StopPcs) =>
            /\ InFlight(p) = 0
            /\ \A c \in related_cpus(p) : hnd[c].pc = "idle"

\* stop has returned for a domain that was sampled while it was started.
C3_Witness ==
    /\ governor_data["p1"]
    /\ ~Started("p1")
    /\ gov["p1"].pc = "return"
    /\ gov["p1"].op = "stop"
    /\ pdbs["p1"].last_sample_time > 0

\* C4: while stop waits for the hand-off and for the slow-path task, the
\* hooks of all CPUs of the domain are retracted and no fast-path
\* invocation is running; once the wait for the hand-off is over, no
\* hand-off is pending.
C4_HooksRetractedFirst ==
    \A p \in Policies :
        /\ gov[p].pc \in (StopPcs \ {"stop_synchronize_rcu"}) =>
              \A c \in related_cpus(p) : ~update_util[c] /\ hnd[c].pc = "idle"
        /\ gov[p].pc \in {"stop_cancel_work_sync", "stop_clear_count",
                          "stop_clear_wip"} => ~irq_work[p]

\* stop waits for a slow-path task that is running.
C4_Witness ==
    /\ gov["p1"].pc = "stop_cancel_work_sync"
    /\ work["p1"].pc = "set_delay"

(***************************************************************************)
(* Claims about the tunables, their store and their life cycle.            *)
(***************************************************************************)

\* C5: a dbs_data with at least one policy attached has
\* sampling_rate >= min_sampling_rate, whatever was written to it.
C5_RateAtLeastMin ==
    \A d \in DbsIds :
        (dbs[d].live /\ dbs[d].usage_count > 0) =>
            dbs[d].sampling_rate >= dbs[d].min_sampling_rate

\* A rate below the minimum was written to a dbs_data of two policies: the
\* minimum is what it holds.
C5_Witness ==
    /\ sysfs.pc = "return"
    /\ sysfs.ret = "count"
    /\ \E d \in DbsIds :
          /\ dbs[d].usage_count = 2
          /\ dbs[d].min_sampling_rate = MIN_LATENCY_MULTIPLIER
          /\ dbs[d].sampling_rate = MIN_LATENCY_MULTIPLIER

\* The store of policy p's dbs_data is between its write of sampling_rate
\* and its reset of p's sample delay.
StoreReaches(p) ==
    /\ sysfs.pc \in {"walk_lock", "walk_locked"}
    /\ \E i \in 1..Len(sysfs.walk) : sysfs.walk[i] = p

\* C6: once a store of sampling_rate has reset the delay of a started
\* policy, a fast-path invocation whose time is at least the stored rate
\* past the last_sample_time it read passes the delay check, whatever the
\* slow path did in between.
C6_LoweredRateTakesEffect ==
    [][\A c \in CPUs :
          LET p == policy_of(c) IN
          ( /\ hnd[c].pc = "check_delay"
            /\ hnd'[c] # hnd[c]
            /\ gov[p].stored
            /\ ~StoreReaches(p)
            /\ hnd[c].time - hnd[c].lst >=
                   dbs[pdbs[p].dbs_data].sampling_rate * NSEC_PER_USEC )
          => hnd'[c].pc # "idle"]_vars

\* After the rate was lowered to the minimum, an invocation that is due
\* under the new rate and not under LATENCY_MULTIPLIER has passed the check.
C6_Witness ==
    /\ gov["p1"].stored
    /\ ~StoreReaches("p1")
    /\ dbs[pdbs["p1"].dbs_data].sampling_rate = MIN_LATENCY_MULTIPLIER
    /\ \E c \in related_cpus("p1") :
          /\ hnd[c].pc = "claim"
          /\ hnd[c].time - hnd[c].lst = MIN_LATENCY_MULTIPLIER * NSEC_PER_USEC

\* No unsigned integer can be parsed from buf.
Malformed(buf) == SkipSpaces(buf) = <<>> \/ ~IsDigit(Head(SkipSpaces(buf)))

SamplingRates == [d \in DbsIds |-> dbs[d].sampling_rate]

SampleDelays == [p \in Policies |-> pdbs[p].sample_delay_ns]

\* C7: store_sampling_rate called with malformed input returns -EINVAL and
\* changes neither a sampling_rate nor a sample_delay_ns.
C7_MalformedRejected ==
    [][( /\ sysfs.pc = "locked"
         /\ sysfs' # sysfs
         /\ dbs[sysfs.dbs].usage_count # 0
         /\ Malformed(sysfs.buf) )
       => /\ sysfs'.pc = "return"
          /\ sysfs'.ret = "EINVAL"
          /\ SamplingRates' = SamplingRates
          /\ SampleDelays' = SampleDelays]_vars

\* A malformed write to a dbs_data in use has returned.
C7_Witness ==
    /\ sysfs.pc = "return"
    /\ sysfs.ret = "EINVAL"
    /\ sysfs.calls = 1

\* C8: governor_store holds the update lock when it checks the usage count;
\* with the count zero it returns -EBUSY without calling the attribute's
\* store and changes no tunable; otherwise it calls the store, once in the
\* whole write.
C8_StoreOnlyWhenInUse ==
    [][( sysfs.pc # "idle" /\ sysfs' # sysfs )
       => /\ sysfs.pc = "locked" =>
               /\ dbs[sysfs.dbs].update_lock = "store"
               /\ IF dbs[sysfs.dbs].usage_count = 0
                    THEN /\ sysfs'.pc = "return"
                         /\ sysfs'.ret = "EBUSY"
                         /\ sysfs'.calls = 0
                         /\ SamplingRates' = SamplingRates
                         /\ SampleDelays' = SampleDelays
                    ELSE /\ sysfs'.ret # "EBUSY"
                         /\ sysfs'.calls = 1
          /\ sysfs.pc \notin {"locked", "return"} => sysfs'.calls = sysfs.calls
          /\ sysfs.pc \in {"walk_lock", "walk_locked"} =>
               dbs[sysfs.dbs].update_lock = "store"]_vars

\* A write found the usage count zero: the last policy was leaving.
C8_Witness ==
    /\ sysfs.pc = "return"
    /\ sysfs.ret = "EBUSY"
    /\ \E p \in Policies : gov[p].pc = "exit_kobject_put"

\* C9: with system-wide tunables every initialized policy references the
\* governor's one dbs_data, the one the attribute writes to, so that the
\* slow path of each of them reads the sampling_rate stored there.
C9_SystemWideShared ==
    ~per_policy =>
        \A p \in Policies :
            governor_data[p] =>
                /\ gdbs_data # NULL
                /\ pdbs[p].dbs_data = gdbs_data
                /\ dbs[gdbs_data].kobj
                /\ \A d \in DbsIds : dbs[d].kobj => d = gdbs_data
                /\ gov_dbs_timer(p) =
                      dbs[gdbs_data].sampling_rate * pdbs[p].rate_mult

\* Both policies are initialized and a rate was stored.
C9_Witness ==
    /\ ~per_policy
    /\ \A p \in Policies : governor_data[p] /\ gov[p].pc = "idle"
    /\ sysfs.pc = "return"
    /\ sysfs.ret = "count"
    /\ dbs[gdbs_data].sampling_rate = 2 * MIN_LATENCY_MULTIPLIER

\* The initialized policies that reference dbs_data d and are not leaving it.
Attached(d) ==
    {p \in Policies : /\ governor_data[p]
                      /\ pdbs[p].dbs_data = d
                      /\ gov[p].pc # "exit_kobject_put"}

C11_ReferencedDbsDataLive ==
    /\ \A p \in Policies :
          governor_data[p] =>
              /\ pdbs[p].dbs_data \in DbsIds
              /\ dbs[pdbs[p].dbs_data].live
    /\ ~per_policy =>
          ((gdbs_data # NULL) <=> (\E p \in Policies : governor_data[p]))

\* With system-wide tunables p1 has left the dbs_data it shared with p2,
\* which is still initialized.
C11_Witness ==
    /\ ~per_policy
    /\ gov["p1"].pc = "return"
    /\ gov["p1"].op = "exit"
    /\ ~governor_data["p1"]
    /\ governor_data["p2"]
    /\ gdbs_data = pdbs["p2"].dbs_data

\* What limits has to ask of the driver for the limits and the frequency of
\* pol: at most max when max < cur, at least min when min > cur, nothing
\* otherwise.
ClampCalls(pol) ==
    IF pol.max < pol.cur THEN << <<pol.max, "CPUFREQ_RELATION_H">> >>
    ELSE IF pol.min > pol.cur THEN << <<pol.min, "CPUFREQ_RELATION_L">> >>
    ELSE <<>>

\* C12: when limits returns, the driver calls it has made are: one call
\* with policy->max and CPUFREQ_RELATION_H if max < cur held, one call with
\* policy->min and CPUFREQ_RELATION_L if min > cur held, none otherwise.
C12_LimitsClampsFrequency ==
    [][\A p \in Policies :
          (gov[p].pc = "limits_locked" /\ gov'[p].pc = "return") =>
              /\ policy[p].driver_calls = <<>>
              /\ policy'[p].driver_calls = ClampCalls(policy[p])]_vars

\* limits has returned after it called the driver with the new, lower
\* maximum.
C12_Witness ==
    /\ gov["p2"].pc = "return"
    /\ gov["p2"].op = "limits"
    /\ policy["p2"].max = 300
    /\ policy["p2"].driver_calls = << <<300, "CPUFREQ_RELATION_H">> >>


\* The state an event can change besides its own position: the objects of
\* the governor, what the CPUs refer to, the hooks.
Objects == <<gdbs_data, gov_dbs_data_mutex, dbs, governor_data, pdbs, cdbs,
             update_util, policy>>

\* C13: init for a policy that is initialized returns -EBUSY and changes
\* nothing: no policy_dbs is allocated, the CPUs keep their policy_dbs,
\* usage_count and policy_list of the dbs_data stay as they were.
C13_InitWhenInitializedIsBusy ==
    [][\A p \in Policies :
          (governor_data[p] /\ gov[p].pc = "idle"
             /\ gov'[p].pc = "return" /\ gov'[p].op = "init")
          => /\ gov'[p].ret = "EBUSY"
             /\ UNCHANGED Objects]_vars

C13_Witness ==
    /\ gov["p2"].pc = "return" /\ gov["p2"].op = "init"
    /\ gov["p2"].ret = "EBUSY"
    /\ governor_data["p1"] /\ governor_data["p2"]
    /\ ~per_policy
    /\ dbs[gdbs_data].usage_count = 2


\* C14: start, stop, limits and exit for a policy that is not initialized
\* return -EINVAL and change nothing; an exit after the exit leaves every
\* usage_count as it is.
C14_EventWhenUninitializedIsInvalid ==
    [][\A p \in Policies :
          (~governor_data[p] /\ gov[p].pc = "idle"
             /\ gov'[p].pc # "idle" /\ gov'[p].op \in OtherEvents)
          => /\ gov'[p].pc = "return"
             /\ gov'[p].ret = "EINVAL"
             /\ UNCHANGED Objects]_vars

\* p1 was initialized (the rate of its dbs_data was set by its init, p2
\* joined later), has exited, and is sent exit again while p2 is counted.
C14_Witness ==
    /\ gov["p1"].pc = "return" /\ gov["p1"].op = "exit"
    /\ gov["p1"].ret = "EINVAL"
    /\ ~governor_data["p1"] /\ governor_data["p2"]
    /\ ~per_policy
    /\ dbs[gdbs_data].usage_count = 1
    /\ dbs[gdbs_data].sampling_rate = InitSamplingRate("p1", 0)
    /\ InitSamplingRate("p1", 0) # InitSamplingRate("p2", 0)


\* C15: an init that fails returns the error and leaves nothing behind: the
\* policy_dbs and the dbs_data it allocated are freed, governor_data is
\* NULL, the CPUs of the policy refer to no policy_dbs, gdbs_data is as it
\* was before the call.
C15_FailedInitLeavesNothing ==
    [][\A p \in Policies :
          (~governor_data[p] /\ gov[p].pc = "idle"
             /\ gov'[p].pc = "return" /\ gov'[p].op = "init"
             /\ gov'[p].ret # "ok")
          => /\ ~governor_data'[p]
             /\ pdbs'[p] = NoPdbs
             /\ \A c \in related_cpus(p) : cdbs'[c] = NoCdbs
             /\ gdbs_data' = gdbs_data
             /\ \A d \in DbsIds : dbs'[d].live = dbs[d].live]_vars


(***************************************************************************)
(* Claims about dbs_update.                                                *)
(***************************************************************************)
\* The loads the last dbs_update used: those of the CPUs it did not skip.
UsedLoads == {sample.load[c] : c \in {x \in CPUs : sample.load[x] # NoLoad}}

\* C16: whatever the counters and the snapshots, dbs_update returns a value
\* in 0 .. 100 that is the greatest of the loads of the CPUs it did not
\* skip, and 0 when it skipped every CPU.
C16_LoadIsMaxInRange ==
    sample.done =>
        /\ sample.max_load \in 0..100
        /\ \A l \in UsedLoads : l <= sample.max_load
        /\ IF UsedLoads = {} THEN sample.max_load = 0
           ELSE sample.max_load \in UsedLoads

\* c1 was not skipped and has the smaller load, c2 the greater.
C16_Witness ==
    /\ sample.done
    /\ sample.load["c1"] = 40
    /\ sample.load["c2"] = 100
    /\ sample.max_load = 100


\* The load line 245 computes for CPU c from the counters the step read,
\* which are the snapshots it left.
FreshLoad(c) ==
    LET wall_time ==
            Uint(cdbs_prev'[c].prev_cpu_wall - cdbs_prev[c].prev_cpu_wall)
        idle_time ==
            Uint(cdbs_prev'[c].prev_cpu_idle - cdbs_prev[c].prev_cpu_idle
                   + cputime_to_usecs(cdbs_prev'[c].prev_cpu_nice
                                        - cdbs_prev[c].prev_cpu_nice))
    IN Uint(100 * (wall_time - idle_time)) \div wall_time

\* C17: a sample that takes the load of a CPU from prev_load leaves
\* prev_load at 0, and the next sample of that CPU that is not skipped
\* computes the load from its own deltas: prev_load is never used in two
\* such samples in a row, however long the windows are.
C17_PrevLoadReusedOnce ==
    [][\A c \in CPUs :
          (~sample.done /\ sample'.done /\ sample'.load[c] # NoLoad)
          => /\ sample'.reused[c] = "once" => cdbs_prev'[c].prev_load = 0
             /\ sample.reused[c] = "once"
                  => /\ sample'.reused[c] = "after"
                     /\ sample'.load[c] = FreshLoad(c)
                     /\ cdbs_prev'[c].prev_load = FreshLoad(c)]_vars

\* After a sample of c1 that used prev_load, a sample over a long window
\* (12000 us with 600 us idle: 95) has computed the load.
C17_Witness ==
    /\ sample.done
    /\ sample.reused["c1"] = "after"
    /\ sample.load["c1"] = 95
    /\ cdbs_prev["c1"].prev_load = 95


(***************************************************************************)
(* Claims about the locks.                                                 *)
(***************************************************************************)
\* C18 as stated: the writer of an attribute does not hold the update lock
\* when it is at the mutex_lock() of a timer mutex (line 63), acquiring it
\* or waiting for it.
C18_UpdateLockNotHeldForTimerLock ==
    sysfs.pc = "walk_lock" => dbs[sysfs.dbs].update_lock # "store"

\* C18 as the code has it: the update lock is taken first and kept while
\* the timer mutex of each list entry is taken and released; the writer
\* holds a timer mutex only inside the walk, so it holds none when it is at
\* the mutex_lock() of the update lock.  gov_attr_set_get and
\* gov_attr_set_put take no timer mutex.
C18_UpdateLockBeforeTimerLock ==
    /\ sysfs.pc \in {"walk_lock", "walk_locked"}
          => dbs[sysfs.dbs].update_lock = "store"
    /\ \A p \in Policies :
          pdbs[p].timer_mutex = "store"
             => sysfs.pc = "walk_locked" /\ Head(sysfs.walk) = p
    /\ sysfs.pc = "lock" => \A p \in Policies : pdbs[p].timer_mutex # "store"

\* The writer holds the update lock and waits for the timer mutex of p2,
\* which the work handler holds.
C18_Witness ==
    /\ sysfs.pc = "walk_lock"
    /\ Head(sysfs.walk) = "p2"
    /\ dbs[sysfs.dbs].update_lock = "store"
    /\ pdbs["p2"].timer_mutex = "work"
    /\ work["p2"].pc = "set_delay"

\* The three sections of policy p under its timer mutex: lines 308, 621-626
\* and 77.
InWorkSection(p) == work[p].pc \in {"decide", "set_delay"}
InLimitsSection(p) == gov[p].pc = "limits_locked"
InStoreSection(p) == sysfs.pc = "walk_locked" /\ Head(sysfs.walk) = p

\* C19: of the decision of the slow path with its update of the sample
\* delay, the clamp and reset of limits, and the reset of the sample delay
\* by store_sampling_rate, no two are in progress for one policy at a time.
C19_TimerMutexExcludes ==
    \A p \in Policies :
        /\ ~(InWorkSection(p) /\ InLimitsSection(p))
        /\ ~(InWorkSection(p) /\ InStoreSection(p))
        /\ ~(InLimitsSection(p) /\ InStoreSection(p))
        /\ InWorkSection(p) => pdbs[p].timer_mutex = "work"
        /\ InLimitsSection(p) => pdbs[p].timer_mutex = "limits"
        /\ InStoreSection(p) => pdbs[p].timer_mutex = "store"

\* limits is in its section while the work handler and the writer both wait
\* for the timer mutex of p2.
C19_Witness ==
    /\ InLimitsSection("p2")
    /\ work["p2"].pc = "lock"
    /\ sysfs.pc = "walk_lock"
    /\ Head(sysfs.walk) = "p2"


(***************************************************************************)
(* Claim about the order of the sample delay and work_in_progress.         *)
(***************************************************************************)
\* C20: in every run of the work handler the sample delay is stored before
\* work_in_progress is cleared, so an invocation of the fast path that saw
\* work_in_progress cleared by a run compares its delta with the delay of
\* that run or of a later write, never with an older one.
C20_DelayWrittenBeforeWipCleared ==
    [][/\ \A p \in Policies :
             (work[p].pc = "clear_wip" /\ work'[p].pc # "clear_wip")
                => work[p].wrote
       /\ \A c \in CPUs :
             (hnd[c].pc = "check_delay" /\ hnd'[c].pc # "check_delay")
                => ~hnd[c].lag]_vars

\* The one CPU of p2 has handed off before (last_sample_time is its own
\* timestamp), the work handler has run and cleared work_in_progress, and a
\* new invocation, which saw it clear, is at the comparison of line 352.
C20_Witness ==
    /\ hnd["c3"].pc = "check_delay"
    /\ hnd["c3"].lst > 0
    /\ ~pdbs["p2"].work_in_progress
    /\ work["p2"].pc = "idle"
    /\ pdbs["p2"].sample_delay_ns = gov_dbs_timer("p2") * NSEC_PER_USEC


(***************************************************************************)
(* Claims about the tunables, the fast path and the events, continued.     *)
(***************************************************************************)
\* The minimum rates the first policy p of a dbs_data can derive: the
\* greater of what gov->init() set and MIN_LATENCY_MULTIPLIER times the
\* latency in us, a latency of 0 us counting as 1 us.
DerivedMinRates(p) ==
    LET us == transition_latency(p) \div 1000
        latency == IF us = 0 THEN 1 ELSE us
    IN {Max(g, MIN_LATENCY_MULTIPLIER * latency) : g \in GovMinRates}

\* C21: min_sampling_rate of a dbs_data is derived by the init of its first
\* policy and stays as it is while the dbs_data lives: a later init that
\* joins it, a store of sampling_rate, start, stop and the exit of another
\* policy do not change it.
C21_MinRateDerivedOnce ==
    [][\A d \in DbsIds :
          /\ (~dbs[d].kobj /\ dbs'[d].kobj)
                => /\ Len(dbs'[d].policy_list) = 1
                   /\ dbs'[d].min_sampling_rate
                         \in DerivedMinRates(Head(dbs'[d].policy_list))
          /\ (dbs[d].live /\ dbs'[d].live)
                => dbs'[d].min_sampling_rate = dbs[d].min_sampling_rate]_vars

\* The system-wide dbs_data was derived by p1 (20 for its latency of 0);
\* p2, whose latency would give 40, has joined, has been started, and a
\* store has lowered sampling_rate to the minimum.
C21_Witness ==
    /\ ~per_policy
    /\ gdbs_data # NULL
    /\ dbs[gdbs_data].policy_list = <<"p2", "p1">>
    /\ dbs[gdbs_data].min_sampling_rate = MIN_LATENCY_MULTIPLIER
    /\ dbs[gdbs_data].sampling_rate = MIN_LATENCY_MULTIPLIER
    /\ Started("p2")
    /\ sysfs.pc = "return"


\* The steps of the handler after the check of the delay.
EscalatePcs == {"claim", "recheck", "set_lst", "set_wip", "queue"}

\* What the handler on c can write: the fields of its policy_dbs, and the
\* irq_work.
HandlerTargets(c) ==
    <<pdbs[cdbs[c].policy_dbs].last_sample_time,
      pdbs[cdbs[c].policy_dbs].sample_delay_ns,
      pdbs[cdbs[c].policy_dbs].work_in_progress,
      pdbs[cdbs[c].policy_dbs].work_count,
      irq_work[cdbs[c].policy_dbs]>>

\* C22: the handler goes past line 343 only when it read work_in_progress
\* as false, and past line 353 only when its time minus the
\* last_sample_time it read, as a signed number, is at least the
\* sample_delay_ns it read; the call that returns at line 354 leaves
\* last_sample_time, sample_delay_ns, work_in_progress and work_count as
\* they are.
C22_EscalatesOnlyWhenDue ==
    [][\A c \in CPUs :
          /\ (hnd[c].pc = "idle" /\ hnd'[c].pc # "idle")
                => /\ hnd'[c].pc = "read_lst"
                   /\ ~pdbs[cdbs[c].policy_dbs].work_in_progress
          /\ (hnd[c].pc = "read_lst" /\ hnd'[c].pc # "read_lst")
                => hnd'[c].pc = "check_delay"
          /\ (hnd[c].pc \notin EscalatePcs /\ hnd'[c].pc \in EscalatePcs)
                => /\ hnd[c].pc = "check_delay"
                   /\ hnd[c].time - hnd[c].lst
                         >= pdbs[cdbs[c].policy_dbs].sample_delay_ns
          /\ (hnd[c].pc = "check_delay" /\ hnd'[c].pc = "idle")
                => /\ hnd[c].time - hnd[c].lst
                         < pdbs[cdbs[c].policy_dbs].sample_delay_ns
                   /\ HandlerTargets(c)' = HandlerTargets(c)]_vars

\* One CPU is about to queue the irq_work, while the other CPU of the
\* policy has read the new last_sample_time, which is later than its own
\* time: its difference is negative.
C22_Witness ==
    /\ hnd["c1"].pc = "queue"
    /\ hnd["c1"].time - hnd["c1"].lst >= pdbs["p1"].sample_delay_ns
    /\ hnd["c2"].pc = "check_delay"
    /\ hnd["c2"].time < hnd["c2"].lst
    /\ pdbs["p1"].sample_delay_ns > 0


\* The handler on c gives up at line 371: it won work_count and found
\* last_sample_time changed.
StaleReset(c) ==
    /\ hnd[c].pc = "recheck"
    /\ hnd'[c].pc = "idle"

OwnsCount(p) ==
    \/ irq_work[p]
    \/ work[p].pending
    \/ work[p].pc \in {"lock", "decide", "set_delay", "clear_count"}
    \/ \E c \in related_cpus(p) : Escalating(c)

GateInit(p) ==
    /\ \A q \in Policies \ {p} : ~governor_data[q]
    /\ CoreInit(p)

NextGate ==
    \E p \in Policies :
        \/ GateInit(p)
        \/ GovReturn(p)
        \/ CoreExit(p)
        \/ CoreStart(p)
        \/ CoreStop(p)
        \/ CoreLimits(p)
        \/ SlowPath(p)
        \/ \E c \in related_cpus(p) : FastPath(c)

SpecGate == InitSystemWide /\ [][NextGate]_vars

\* C24: work_count of every policy is 0 or 1 in every state, whatever the
\* interleaving of the handlers, the work handler and stop; for a policy
\* that is not shared it is 0.
C24_WorkCountZeroOrOne ==
    \A p \in Policies :
        /\ pdbs[p].work_count \in {0, 1}
        /\ (Cardinality(related_cpus(p)) = 1) => pdbs[p].work_count = 0

\* Both CPUs of p1 are due: one has won work_count and is about to write
\* last_sample_time, the other is at the atomic_add_unless of line 362.
C24_Witness ==
    /\ pdbs["p1"].work_count = 1
    /\ hnd["c1"].pc = "set_lst"
    /\ hnd["c2"].pc = "claim"

\* The handler of the policy of one CPU hands off with work_count 0.
C24_WitnessNotShared ==
    /\ hnd["c3"].pc = "queue"
    /\ ~pdbs["p2"].is_shared
    /\ pdbs["p2"].work_count = 0


\* A sample of the policy is pending or running: the irq_work or the work
\* is queued, or the work handler has not yet stored sample_delay_ns.
SamplePending(p) ==
    \/ irq_work[p]
    \/ work[p].pending
    \/ work[p].pc \in {"lock", "decide", "set_delay"}

\* C25: work_in_progress of a policy is true whenever a sample is pending
\* or running for it, from the hand-off of line 377 until the work handler
\* has stored the new sample_delay_ns, whatever the other CPUs' handlers
\* and an earlier run of the work handler do.
C25_WipWhileSamplePending ==
    \A p \in Policies : SamplePending(p) => pdbs[p].work_in_progress


(***************************************************************************)
(* SpecLive: the shared policy p1 is initialized and started and is not    *)
(* stopped; limits, the handlers and the slow path run.  Fairness: the     *)
(* irq_work and the workqueue run what is queued (dbs_irq_work and the     *)
(* steps of dbs_work_handler), a handler that was called runs to its       *)
(* return, and limits, which holds timer_mutex, reaches its mutex_unlock.  *)
(* The mutex_lock of dbs_work_handler waits in the queue of the mutex and  *)
(* gets it although limits takes it again and again: strong fairness.      *)
(***************************************************************************)
HandlerRun(c) ==
    \/ HandlerReadLst(c)
    \/ HandlerCheckDelay(c)
    \/ HandlerClaim(c)
    \/ HandlerRecheck(c)
    \/ HandlerSetLst(c)
    \/ HandlerSetWip(c)
    \/ HandlerQueue(c)

WorkRun(p) ==
    \/ WorkStart(p)
    \/ WorkLock(p)
    \/ WorkDecide(p)
    \/ WorkSetDelay(p)
    \/ WorkClearCount(p)
    \/ WorkClearWip(p)

NextLive ==
    \/ CoreInit("p1")
    \/ GovReturn("p1")
    \/ CoreStart("p1")
    \/ CoreLimits("p1")
    \/ SlowPath("p1")
    \/ \E c \in related_cpus("p1") : FastPath(c)

Fairness ==
    /\ WF_vars(dbs_irq_work("p1"))
    /\ SF_vars(WorkRun("p1"))
    /\ WF_vars(LimitsLocked("p1"))
    /\ \A c \in related_cpus("p1") : WF_vars(HandlerRun(c))

SpecLive == InitSystemWide /\ [][NextLive]_vars /\ Fairness

\* A handler of the policy is at the comparison of line 352 with a
\* timestamp that is due.
DueCall(p) ==
    \E c \in related_cpus(p) :
        /\ hnd[c].pc = "check_delay"
        /\ hnd[c].time - hnd[c].lst >= pdbs[p].sample_delay_ns

\* The statements of one run of dbs_work_handler: the decision is called
\* with timer_mutex held, its delay is what is stored, then work_count is
\* reset, then work_in_progress is cleared.
OneRun(p) ==
    /\ (work[p].pc = "decide" /\ work'[p].pc # "decide")
          => /\ pdbs[p].timer_mutex = "work"
             /\ work'[p].pc = "set_delay"
             /\ work'[p].delay = gov_dbs_timer(p)
    /\ (work[p].pc = "set_delay" /\ work'[p].pc # "set_delay")
          => /\ work'[p].pc = "clear_count"
             /\ pdbs'[p].sample_delay_ns = work[p].delay * NSEC_PER_USEC
             /\ pdbs'[p].timer_mutex = NULL
    /\ (work[p].pc = "clear_count" /\ work'[p].pc # "clear_count")
          => /\ work'[p].pc = "clear_wip"
             /\ pdbs'[p].work_count = 0
    /\ (work[p].pc = "clear_wip" /\ work'[p].pc # "clear_wip")
          => /\ work'[p].pc = "idle"
             /\ ~pdbs'[p].work_in_progress

\* C26: when the irq_work, the workqueue and the running code are fair and
\* the policy is not stopped, every hand-off is followed by a run of
\* dbs_work_handler, which calls the decision once with timer_mutex held,
\* stores its delay, resets work_count and clears work_in_progress, and
\* returns; work_in_progress never stays true for ever, and a policy whose
\* handler is called again and again with a due timestamp is sampled again
\* and again.
C26_EscalationIsSampled ==
    /\ [][OneRun("p1")]_vars
    /\ irq_work["p1"] ~> (work["p1"].pc = "decide")
    /\ (work["p1"].pc = "decide") ~> (work["p1"].pc = "clear_wip")
    /\ (work["p1"].pc = "clear_wip") ~> (work["p1"].pc = "idle")
    /\ pdbs["p1"].work_in_progress ~> ~pdbs["p1"].work_in_progress
    /\ ([]<>DueCall("p1")) => ([]<>(work["p1"].pc = "decide"))

\* A second sample of the policy: the decision is being called, with
\* timer_mutex held, after a hand-off at a time later than the first one.
C26_Witness ==
    /\ work["p1"].pc = "decide"
    /\ pdbs["p1"].timer_mutex = "work"
    /\ pdbs["p1"].work_in_progress
    /\ pdbs["p1"].last_sample_time = 1000 * 1000
    /\ pdbs["p1"].sample_delay_ns = 0
    /\ \E c \in related_cpus("p1") : hnd[c].pc = "check_delay"

(***************************************************************************)
(* SpecStart: both policies, in either mode of the tunables, are           *)
(* initialized, started and stopped; the core may hand over a policy whose *)
(* current frequency is unknown (policy->cur = 0); the sysfs store runs    *)
(* alongside.                                                              *)
(***************************************************************************)
CurFreqs == {0, InitPolicy.cur}

\* policy->cur as the cpufreq core and the driver leave it before start.
CoreSetCur(p) ==
    /\ gov[p].pc = "idle"
    /\ ~Started(p)
    /\ \E f \in CurFreqs \ {policy[p].cur} :
          policy' = [policy EXCEPT ![p].cur = f]
    /\ UNCHANGED <<statvars, per_policy, loadvars, gdbs_data, gov_dbs_data_mutex, dbs,
                   governor_data, pdbs, cdbs, update_util, hnd, irq_work,
                   work, gov, sysfs>>

NextStart ==
    \/ \E p \in Policies :
          \/ CoreInit(p)
          \/ GovReturn(p)
          \/ CoreSetCur(p)
          \/ CoreStart(p)
          \/ CoreStop(p)
    \/ SysfsStore(RateBufs)

SpecStart == Init /\ [][NextStart]_vars

\* C27: a start that succeeds sets is_shared to whether the policy has more
\* than one CPU and rate_mult to 1, calls gov->start(), and then sets
\* sample_delay_ns to the sampling_rate read at the start, last_sample_time
\* to 0 and the hook of every CPU of the policy; a start of a policy whose
\* current frequency is 0 returns -EINVAL and sets no hook.
C27_StartPreparesPolicy ==
    [][\A p \in Policies :
          /\ (gov[p].pc = "idle" /\ gov'[p].pc = "start_set_update_util")
                => /\ policy[p].cur # 0
                   /\ gov'[p].rate = dbs[pdbs[p].dbs_data].sampling_rate
                   /\ pdbs'[p].is_shared = (Cardinality(related_cpus(p)) > 1)
                   /\ pdbs'[p].rate_mult = 1
                   /\ update_util' = update_util
          /\ (gov[p].pc = "start_set_update_util" /\ gov'[p].pc = "return")
                => /\ gov'[p].op = "start"
                   /\ gov'[p].ret = "ok"
                   /\ pdbs'[p].is_shared = (Cardinality(related_cpus(p)) > 1)
                   /\ pdbs'[p].rate_mult = 1
                   /\ pdbs'[p].sample_delay_ns = gov[p].rate * NSEC_PER_USEC
                   /\ pdbs'[p].last_sample_time = 0
                   /\ \A c \in CPUs :
                         update_util'[c] = (c \in related_cpus(p)
                                              \/ update_util[c])
          /\ (gov[p].pc = "idle" /\ governor_data[p]
                 /\ policy[p].cur = 0 /\ gov'[p].op = "start")
                => /\ gov'[p].pc = "return"
                   /\ gov'[p].ret = "EINVAL"
                   /\ update_util' = update_util
                   /\ pdbs' = pdbs]_vars

\* p2 was refused with -EINVAL while p1, started after a store of
\* sampling_rate, has its hooks and the stored rate as its delay.
C27_Witness ==
    /\ gov["p2"].pc = "return"
    /\ gov["p2"].op = "start"
    /\ gov["p2"].ret = "EINVAL"
    /\ ~update_util["c3"]
    /\ update_util["c1"] /\ update_util["c2"]
    /\ pdbs["p1"].is_shared
    /\ pdbs["p1"].sample_delay_ns = 40 * NSEC_PER_USEC
    /\ pdbs["p1"].last_sample_time = 0

\* C28: start clears prev_load of every CPU of the policy, so the first
\* dbs_update after a start, also a start after a stop and a long pause,
\* takes no load from prev_load: the load of every CPU it does not skip is
\* computed from the deltas of the counters since the start.
C28_FirstUpdateComputesLoad ==
    [][/\ \A p \in Policies :
             (gov[p].pc = "idle" /\ gov'[p].pc = "start_set_update_util")
                => \A c \in related_cpus(p) : cdbs_prev'[c].prev_load = 0
       /\ \A c \in CPUs :
             (~sample.done /\ sample'.done /\ sample.updates = 0
                /\ sample'.load[c] # NoLoad)
                => /\ sample'.reused[c] # "once"
                   /\ sample'.load[c] = FreshLoad(c)]_vars

\* The first dbs_update after a start has computed the load of c1 over a
\* window of 12000 us, more than twice the sampling rate: 95.
C28_Witness ==
    /\ sample.done
    /\ sample.updates = 1
    /\ sample.load["c1"] = 95
    /\ sample.reused["c1"] # "once"
    /\ cdbs_prev["c1"].prev_cpu_wall
          > 2 * dbs[pdbs["p1"].dbs_data].sampling_rate

\* Somebody is there to reset work_count: a handler that has won it, or a
\* hand-off whose work handler has not reached line 312.
CountOwned(p) ==
    \/ \E c \in related_cpus(p) :
          hnd[c].pc \in {"recheck", "set_lst", "set_wip", "queue"}
    \/ irq_work[p]
    \/ work[p].pending
    \/ work[p].pc \in {"lock", "decide", "set_delay", "clear_count"}

\* Somebody is there to clear work_in_progress: the handler that has set it
\* and is about to queue the irq_work, or a hand-off.
WipOwned(p) ==
    \/ \E c \in related_cpus(p) : hnd[c].pc = "queue"
    \/ InFlight(p) > 0

\* C29: when stop has returned, work_in_progress is false and work_count is
\* 0 whatever they were when stop began, and so they are when the next
\* start installs the hooks; in a started policy work_count is 1 and
\* work_in_progress is true only while a handler or a hand-off is there to
\* reset them, and the atomic_add_unless of a due handler fails only then:
\* the first due handler after the start hands off, and the gate is never
\* closed for good.
C29_GateOpenAfterStop ==
    /\ [](\A p \in Policies :
            /\ (gov[p].pc = "return" /\ gov[p].op = "stop")
                  => /\ ~pdbs[p].work_in_progress
                     /\ pdbs[p].work_count = 0
                     /\ InFlight(p) = 0
            /\ Started(p)
                  => /\ pdbs[p].work_count = 1 => CountOwned(p)
                     /\ pdbs[p].work_in_progress => WipOwned(p))
    /\ [][/\ \A p \in Policies :
                (gov[p].pc = "start_set_update_util" /\ gov'[p].pc = "return")
                   => /\ ~pdbs'[p].work_in_progress
                      /\ pdbs'[p].work_count = 0
                      /\ InFlight(p) = 0
          /\ \A c \in CPUs :
                (hnd[c].pc = "claim" /\ hnd'[c].pc = "idle")
                   => CountOwned(cdbs[c].policy_dbs)]_vars

\* stop has taken the queued work off the queue: work_in_progress is true
\* and work_count is 1 with no hand-off left, and stop is about to reset
\* them.
C29_Witness ==
    /\ gov["p1"].pc = "stop_clear_count"
    /\ pdbs["p1"].work_in_progress
    /\ pdbs["p1"].work_count = 1
    /\ InFlight("p1") = 0

\* The policy_list of a dbs_data without the policy p.
ListWithout(list, p) ==
    LET keep == {i \in 1..Len(list) : list[i] # p}
        nth(k) == CHOOSE i \in keep : Cardinality({j \in keep : j < i}) = k - 1
    IN [k \in 1..Cardinality(keep) |-> list[nth(k)]]

\* C30: exit of an initialized policy returns 0 and leaves the policy
\* uninitialized: it is taken off the policy_list of its dbs_data, whose
\* usage count drops by one, and the cpu_dbs of each of its related CPUs
\* has policy_dbs and the hook function cleared.  The cpu_dbs and the
\* policy_dbs of the other policies stay as they are, and so does every
\* dbs_data, but for the one the policy has left as the last: that one is
\* freed, and the governor's global pointer cleared with it.
C30_ExitLeavesUninitialized ==
    [][\A p \in Policies :
          LET d == pdbs[p].dbs_data IN
          /\ (gov[p].pc = "idle" /\ governor_data[p]
                 /\ (gov'[p].op = "exit" \/ gov'[p].pc = "exit_kobject_put"))
                => /\ dbs'[d].usage_count = dbs[d].usage_count - 1
                   /\ dbs'[d].policy_list = ListWithout(dbs[d].policy_list, p)
                   /\ dbs'[d] = [dbs[d] EXCEPT
                                   !.usage_count = dbs'[d].usage_count,
                                   !.policy_list = dbs'[d].policy_list]
                   /\ \A e \in DbsIds \ {d} : dbs'[e] = dbs[e]
                   /\ gdbs_data' = gdbs_data
                   /\ (gov'[p].pc = "exit_kobject_put")
                         = (dbs'[d].usage_count = 0)
          /\ (gov[p].pc = "exit_kobject_put" /\ gov'[p].pc # gov[p].pc)
                => /\ dbs[d].usage_count = 0
                   /\ dbs'[d] = NoDbs
                   /\ \A e \in DbsIds \ {d} : dbs'[e] = dbs[e]
                   /\ gdbs_data' = IF per_policy THEN gdbs_data ELSE NULL
          /\ (governor_data[p] /\ gov'[p].pc = "return"
                 /\ gov'[p].op = "exit")
                => /\ gov'[p].ret = "ok"
                   /\ ~governor_data'[p]
                   /\ pdbs'[p] = NoPdbs
                   /\ \A c \in related_cpus(p) :
                         /\ cdbs'[c].policy_dbs = NULL
                         /\ ~cdbs'[c].func
                   /\ \A c \in CPUs \ related_cpus(p) : cdbs'[c] = cdbs[c]
                   /\ \A q \in Policies \ {p} :
                         /\ pdbs'[q] = pdbs[q]
                         /\ governor_data'[q] = governor_data[q]]_vars

\* With system-wide tunables p1 has left; p2 is still initialized, alone on
\* the policy_list of the global dbs_data, its cpu_dbs untouched.
C30_Witness ==
    /\ ~per_policy
    /\ gov["p1"].pc = "return"
    /\ gov["p1"].op = "exit"
    /\ gov["p1"].ret = "ok"
    /\ ~governor_data["p1"]
    /\ cdbs["c1"] = NoCdbs /\ cdbs["c2"] = NoCdbs
    /\ governor_data["p2"]
    /\ cdbs["c3"].policy_dbs = "p2"
    /\ gdbs_data # NULL
    /\ dbs[gdbs_data].usage_count = 1
    /\ dbs[gdbs_data].policy_list = <<"p2">>

(***************************************************************************)
(* Claims about dbs_update, continued.                                     *)
(***************************************************************************)
\* A call of dbs_update for the policy p.
Updated(p) == ~sample.done /\ sample'.done /\ Started(p)

\* The deltas of lines 190-201 for CPU c, from the counters the call read
\* and the snapshots it found.
WallDelta(c) == Uint(sample'.stat[c].wall - cdbs_prev[c].prev_cpu_wall)

IdleDelta(c) ==
    IF sample'.ignore_nice
    THEN Uint(Uint(sample'.stat[c].idle - cdbs_prev[c].prev_cpu_idle)
                + cputime_to_usecs(sample'.stat[c].nice
                                     - cdbs_prev[c].prev_cpu_nice))
    ELSE Uint(sample'.stat[c].idle - cdbs_prev[c].prev_cpu_idle)

\* C31: dbs_update skips a CPU whose wall-time delta is 0 or less than its
\* idle-time delta (the nice time added with ignore_nice_load), and only
\* such a CPU: its load does not enter the maximum, its prev_load stays,
\* and its snapshots of the wall and idle time (and of the nice time with
\* ignore_nice_load) are the counters just read.
C31_SkippedCpuKeepsPrevLoad ==
    [][\A p \in Policies : Updated(p) =>
          /\ \A c \in related_cpus(p) :
                /\ (sample'.load[c] = NoLoad)
                      = (WallDelta(c) = 0 \/ WallDelta(c) < IdleDelta(c))
                /\ cdbs_prev'[c].prev_cpu_wall = sample'.stat[c].wall
                /\ cdbs_prev'[c].prev_cpu_idle = sample'.stat[c].idle
                /\ cdbs_prev'[c].prev_cpu_nice =
                      IF sample'.ignore_nice THEN sample'.stat[c].nice
                      ELSE cdbs_prev[c].prev_cpu_nice
                /\ sample'.load[c] = NoLoad
                      => cdbs_prev'[c].prev_load = cdbs_prev[c].prev_load
          /\ sample'.max_load \in
                {0} \cup {sample'.load[c] :
                            c \in {x \in related_cpus(p) :
                                      sample'.load[x] # NoLoad}}]_vars

\* c1 was skipped with more idle than wall time (nice time added) and has
\* kept a prev_load of 40 under new snapshots; c2 gave the maximum.
C31_Witness ==
    /\ sample.done
    /\ sample.ignore_nice
    /\ sample.load["c1"] = NoLoad
    /\ cdbs_prev["c1"].prev_load = 40
    /\ cdbs_prev["c1"].prev_cpu_wall = 1000
    /\ cdbs_prev["c1"].prev_cpu_nice = 1
    /\ sample.load["c2"] = 100
    /\ sample.max_load = 100


(***************************************************************************)
(* SpecWide: p1 is initialized and started with the counters at zero, and  *)
(* dbs_update runs with counters that include a window of half the range   *)
(* of unsigned int.  The governor stretches the sampling rate with         *)
(* rate_mult, up to a delay of just over half that range.                  *)
(***************************************************************************)
WideWallTimes == {0, 1000, 2 ^ (UINT_BITS - 1)}

WideStats ==
    {[c \in CPUs |->
         IF c = "c1" THEN [wall |-> w, idle |-> i, nice |-> 0]
         ELSE IF c = "c2" THEN [wall |-> w2, idle |-> i2, nice |-> 0]
         ELSE BootStat[c]] :
        w \in WideWallTimes, i \in IdleTimes, w2 \in {0, 1000},
        i2 \in IdleTimes}

WideUpdate(p) ==
    \/ /\ Started(p)
       /\ ~sample.done
       /\ \E stat \in WideStats : dbs_update(p, stat, FALSE)
    \/ UpdateReturn

\* The multipliers the governor sets: none, and the one that brings the
\* initial sampling rate of p1 just above half the range.
RateMults == {1, 2 ^ (UINT_BITS - 1) \div (LATENCY_MULTIPLIER * HwLatency("p1")) + 1}

\* The governor's timer function sets policy_dbs->rate_mult between samples.
GovRateMult(p) ==
    /\ gov[p].pc = "idle"
    /\ Started(p)
    /\ ~sample.done
    /\ \E m \in RateMults \ {pdbs[p].rate_mult} :
          pdbs' = [pdbs EXCEPT ![p].rate_mult = m]
    /\ UNCHANGED <<statvars, per_policy, loadvars, policy, gdbs_data,
                   gov_dbs_data_mutex, dbs, governor_data, cdbs, update_util,
                   hnd, irq_work, work, gov, sysfs>>

NextWide ==
    \/ CoreInit("p1")
    \/ GovReturn("p1")
    \/ CoreStart("p1")
    \/ GovRateMult("p1")
    \/ WideUpdate("p1")

SpecWide == InitSystemWide /\ [][NextWide]_vars

\* The deltas of the counters as numbers, without the width of unsigned int.
TrueWallDelta(c) == sample'.stat[c].wall - cdbs_prev[c].prev_cpu_wall

TrueIdleDelta(c) ==
    sample'.stat[c].idle - cdbs_prev[c].prev_cpu_idle
      + (IF sample'.ignore_nice
         THEN cputime_to_usecs(sample'.stat[c].nice
                                 - cdbs_prev[c].prev_cpu_nice)
         ELSE 0)

\* C32: for a CPU that is not skipped and whose load is not taken from
\* prev_load, the load dbs_update computes and stores in prev_load is
\* floor(100 * (wall_delta - idle_delta) / wall_delta) for all deltas with
\* 0 <= idle_delta <= wall_delta that fit an unsigned int, also when
\* 100 * (wall_delta - idle_delta) does not.
C32_LoadIsFloorOfDeltas ==
    [][\A p \in Policies : Updated(p) =>
          \A c \in related_cpus(p) :
              (/\ sample'.load[c] # NoLoad
               /\ sample'.reused[c] # "once"
               /\ 0 <= TrueIdleDelta(c)
               /\ TrueIdleDelta(c) <= TrueWallDelta(c)
               /\ TrueWallDelta(c) < 2 ^ UINT_BITS)
              => /\ sample'.load[c] =
                      (100 * (TrueWallDelta(c) - TrueIdleDelta(c)))
                         \div TrueWallDelta(c)
                 /\ cdbs_prev'[c].prev_load = sample'.load[c]]_vars

\* C33: dbs_update takes the load of a CPU it does not skip from prev_load
\* exactly when the wall-time delta is greater than
\* 2 * sampling_rate * rate_mult and prev_load is not 0; the load is then
\* prev_load, and prev_load becomes 0; otherwise the load is computed and
\* stored in prev_load.
C33_ReuseExactlyOnLongWindow ==
    [][\A p \in Policies : Updated(p) =>
          \A c \in related_cpus(p) :
              sample'.load[c] # NoLoad =>
                  IF /\ WallDelta(c) > 2 * dbs[pdbs[p].dbs_data].sampling_rate
                                          * pdbs[p].rate_mult
                     /\ cdbs_prev[c].prev_load # 0
                  THEN /\ sample'.reused[c] = "once"
                       /\ sample'.load[c] = cdbs_prev[c].prev_load
                       /\ cdbs_prev'[c].prev_load = 0
                  ELSE /\ sample'.reused[c] # "once"
                       /\ cdbs_prev'[c].prev_load = sample'.load[c]]_vars

(***************************************************************************)
(* SpecClamp: the policy p2 of one CPU is initialized and started; the     *)
(* core changes its limits and calls limits, with the handler and the slow *)
(* path running.                                                           *)
(***************************************************************************)
NextClamp ==
    \/ CoreInit("p2")
    \/ GovReturn("p2")
    \/ CoreStart("p2")
    \/ CoreSetLimits("p2")
    \/ CoreLimits("p2")
    \/ SlowPath("p2")
    \/ \E c \in related_cpus("p2") : FastPathAlone(c)

SpecClamp == InitSystemWide /\ [][NextClamp]_vars

\* C34: when limits returns, sample_delay_ns of the policy is 0 whether or
\* not the driver was called, and it stays 0 until the work handler stores
\* the delay of a new sample; a handler that compares with this delay and
\* has a time not earlier than the last_sample_time it read goes on to
\* hand off.  limits changes neither last_sample_time nor work_in_progress
\* nor work_count nor rate_mult, nor a dbs_data.
C34_LimitsForcesSample ==
    [][\A p \in Policies :
          /\ (gov[p].pc = "limits_locked" /\ gov'[p].pc = "return")
                => /\ pdbs'[p].sample_delay_ns = 0
                   /\ gov'[p].ret = "ok"
          /\ (/\ gov'[p].pc # gov[p].pc
               /\ "limits_locked" \in {gov[p].pc, gov'[p].pc})
                => /\ pdbs'[p] = [pdbs[p] EXCEPT
                                    !.sample_delay_ns = pdbs'[p].sample_delay_ns,
                                    !.timer_mutex = pdbs'[p].timer_mutex]
                   /\ dbs' = dbs
          /\ (pdbs[p].sample_delay_ns = 0 /\ pdbs'[p].sample_delay_ns # 0
                 /\ governor_data[p] /\ governor_data'[p])
                => \/ work[p].pc = "set_delay"
                   \/ gov[p].pc = "start_set_update_util"
          /\ \A c \in related_cpus(p) :
                (/\ hnd[c].pc = "check_delay"
                 /\ hnd'[c].pc # "check_delay"
                 /\ pdbs[p].sample_delay_ns = 0
                 /\ hnd[c].time >= hnd[c].lst)
                => hnd'[c].pc \in {"claim", "set_lst"}]_vars

\* limits has returned without a call of the driver; the handler, called
\* with the time of the last sample, has passed the comparison with the
\* delay of 0 and is about to write last_sample_time.
C34_Witness ==
    /\ gov["p2"].pc = "return"
    /\ gov["p2"].op = "limits"
    /\ policy["p2"].driver_calls = <<>>
    /\ pdbs["p2"].sample_delay_ns = 0
    /\ pdbs["p2"].last_sample_time > 0
    /\ hnd["c3"].pc = "set_lst"
    /\ hnd["c3"].time = hnd["c3"].lst

(***************************************************************************)
(* Claims about per-policy tunables.                                       *)
(***************************************************************************)
\* The init of policy p returns 0 in this step.
InitSucceeds(p) ==
    /\ gov[p].pc = "idle"
    /\ gov'[p].pc = "return"
    /\ gov'[p].op = "init"
    /\ gov'[p].ret = "ok"

\* The store of an attribute takes a step.
StoreSteps == sysfs' # sysfs /\ sysfs.pc \in {"locked", "walk_lock", "walk_locked"}

\* C35: with per-policy tunables an init that returns 0 attaches the policy
\* to a dbs_data that was not allocated before, with usage_count 1 and the
\* policy as the only entry of its list, and leaves every other dbs_data
\* as it was; gov->gdbs_data stays NULL; a store of sampling_rate to one
\* dbs_data changes no other dbs_data and no policy_dbs_info attached to
\* another dbs_data.
C35_PerPolicyTunablesApart ==
    [][per_policy =>
         /\ gdbs_data' = NULL
         /\ \A p \in Policies :
               InitSucceeds(p) =>
                 LET d == pdbs'[p].dbs_data IN
                 /\ d \in DbsIds
                 /\ ~dbs[d].live
                 /\ dbs'[d].live
                 /\ dbs'[d].usage_count = 1
                 /\ dbs'[d].policy_list = <<p>>
                 /\ \A q \in Policies \ {p} : pdbs'[q].dbs_data # d
                 /\ \A e \in DbsIds \ {d} : dbs'[e] = dbs[e]
         /\ StoreSteps =>
               /\ \A e \in DbsIds \ {sysfs.dbs} : dbs'[e] = dbs[e]
               /\ \A q \in Policies :
                     pdbs[q].dbs_data # sysfs.dbs => pdbs'[q] = pdbs[q]]_vars

\* Both policies are started on tunables of their own; a store has changed
\* the sampling_rate of p1's and reset p1's delay, and p2 has the rate and
\* the delay of its start.
C35_Witness ==
    /\ per_policy
    /\ Started("p1")
    /\ Started("p2")
    /\ gov["p1"].pc = "idle"
    /\ gov["p2"].pc = "idle"
    /\ pdbs["p1"].dbs_data # pdbs["p2"].dbs_data
    /\ sysfs.pc = "return"
    /\ sysfs.ret = "count"
    /\ dbs[pdbs["p1"].dbs_data].sampling_rate
          # InitSamplingRate("p1", 0)
    /\ pdbs["p1"].sample_delay_ns = 0
    /\ dbs[pdbs["p2"].dbs_data].sampling_rate = InitSamplingRate("p2", 0)
    /\ pdbs["p2"].sample_delay_ns
          = InitSamplingRate("p2", 0) * NSEC_PER_USEC

(***************************************************************************)
(* SpecOrder: init, start, stop, limits and exit of the one-CPU policy p2  *)
(* with its fast path and slow path, p1 joining and leaving the same       *)
(* tunables, and the sysfs store.                                          *)
(***************************************************************************)
NextOrder ==
    \/ CoreInit("p2")
    \/ GovReturn("p2")
    \/ CoreExit("p2")
    \/ CoreStart("p2")
    \/ CoreStop("p2")
    \/ CoreLimits("p2")
    \/ SlowPath("p2")
    \/ \E c \in related_cpus("p2") : FastPathAlone(c)
    \/ CoreInit("p1")
    \/ GovReturn("p1")
    \/ CoreExit("p1")
    \/ SysfsStore(RateBufs)

SpecOrder == InitSystemWide /\ [][NextOrder]_vars

\* A thread is inside the governor: an event that has not returned, a
\* handler, a hand-off or a store in progress.
InGovernor ==
    \/ \E p \in Policies :
          \/ gov[p].pc \notin {"idle", "return"}
          \/ irq_work[p]
          \/ work[p].pending
          \/ work[p].pc # "idle"
    \/ \E c \in CPUs : hnd[c].pc # "idle"
    \/ sysfs.pc \notin {"idle", "return"}

\* The steps of the threads that are inside the governor.
GovernorStep ==
    \/ \E p \in Policies :
          \/ ExitLast(p)
          \/ gov_set_update_util(p)
          \/ StopSynchronizeRcu(p)
          \/ StopIrqWorkSync(p)
          \/ StopCancelWorkSync(p)
          \/ StopClearCount(p)
          \/ StopClearWip(p)
          \/ LimitsLocked(p)
          \/ SlowPath(p)
    \/ \E c \in CPUs :
          \/ HandlerReadLst(c)
          \/ HandlerCheckDelay(c)
          \/ HandlerSetLst(c)
          \/ HandlerSetWip(c)
          \/ HandlerQueue(c)
    \/ StoreLock
    \/ StoreLocked
    \/ StoreWalkLock
    \/ StoreWalkLocked

\* The steps that end the wait of stop's cancel_work_sync(): those of the
\* work handler and of the holder of the timer mutex it waits for.
WorkHandlerStep(p) ==
    \/ SlowPath(p)
    \/ LimitsLocked(p)
    \/ StoreWalkLocked

StopWaits(p) ==
    /\ gov[p].pc \in {"stop_synchronize_rcu", "stop_irq_work_sync",
                      "stop_cancel_work_sync"}
    /\ work[p].pc # "idle"

\* C36: init, exit, the store of an attribute, limits, stop and the slow
\* path never block each other for good.  The locks nest in the order
\* gov_dbs_data_mutex, update_lock, timer_mutex: who holds a timer mutex is
\* inside its section and waits for no lock, the writer holds a timer
\* mutex only under the update lock, and gov_dbs_data_mutex is held across
\* steps only by the exit that waits for the writer after it has left the
\* tunables.  While stop waits with the work handler running, the work
\* handler or the holder of the timer mutex can take a step; and whenever
\* a thread is inside the governor, one of them can take a step.
C36_NoDeadlock ==
    /\ InGovernor => ENABLED GovernorStep
    /\ \A p \in Policies :
          /\ StopWaits(p) => ENABLED WorkHandlerStep(p)
          /\ pdbs[p].timer_mutex \in {NULL, "work", "limits", "store"}
          /\ pdbs[p].timer_mutex = "work" => InWorkSection(p)
          /\ pdbs[p].timer_mutex = "limits" => InLimitsSection(p)
          /\ pdbs[p].timer_mutex = "store"
                => InStoreSection(p) /\ dbs[sysfs.dbs].update_lock = "store"
          /\ gov_dbs_data_mutex = p
                => /\ gov[p].pc = "exit_kobject_put"
                   /\ pdbs[p].timer_mutex = NULL
                   /\ dbs[pdbs[p].dbs_data].usage_count = 0
    /\ gov_dbs_data_mutex \in Policies \cup {NULL}
    /\ \A d \in DbsIds :
          /\ dbs[d].update_lock \in {NULL, "store"}
          /\ dbs[d].update_lock = "store"
                => sysfs.dbs = d /\ sysfs.pc \in {"locked", "walk_lock",
                                                  "walk_locked"}

\* stop waits in cancel_work_sync() for the work handler, which waits for
\* the timer mutex that limits holds; the writer holds the update lock.
C36_Witness ==
    /\ gov["p2"].pc = "stop_cancel_work_sync"
    /\ work["p2"].pc = "lock"
    /\ pdbs["p2"].timer_mutex = "store"
    /\ sysfs.pc = "walk_locked"
    /\ governor_data["p1"]

(***************************************************************************)
(* SpecDispatch: the events as cpufreq_governor_dbs accepts them.  The     *)
(* dispatcher tests only policy->governor_data (line 637), so an exit is   *)
(* run on a started policy as well.                                        *)
(***************************************************************************)
\* Lines 639-640: CPUFREQ_GOV_POLICY_EXIT, with no test of the hooks.
DispatchExit(p) ==
    \/ cpufreq_governor_exit(p)
    \/ ExitLast(p)

\* The policy_dbs_info of p is allocated.  A hook or work handler that
\* touches a freed policy_dbs_info, or the call of the cleared func, has
\* undefined behaviour; no step of it is taken here.
PolicyDbsAllocated(p) == pdbs[p].dbs_data # NULL

NextDispatch ==
    \/ CoreInit("p2")
    \/ GovReturn("p2")
    \/ DispatchExit("p2")
    \/ CoreStart("p2")
    \/ CoreStop("p2")
    \/ PolicyDbsAllocated("p2") /\ SlowPath("p2")
    \/ /\ PolicyDbsAllocated("p2")
       /\ \E c \in related_cpus("p2") : FastPathAlone(c)

SpecDispatch == InitSystemWide /\ [][NextDispatch]_vars

\* A hand-off of policy p is pending or running.
TaskPending(p) == irq_work[p] \/ work[p].pending \/ work[p].pc # "idle"

\* C37: a CPU has its hook set, or its policy a hand-off pending, only
\* while the policy_dbs of its cpu_dbs_info is the allocated
\* policy_dbs_info of its policy, with governor_data set or the exit of
\* the policy not yet at free_policy_dbs_info.
C37_HookOnlyWhileAllocated ==
    \A c \in CPUs :
        LET p == policy_of(c) IN
        (update_util[c] \/ TaskPending(p))
           => /\ cdbs[c].policy_dbs = p
              /\ PolicyDbsAllocated(p)

(***************************************************************************)
(* cpufreq_stats.c: the stats table of one policy.  Arrays are functions   *)
(* on 0..count-1.                                                          *)
(***************************************************************************)
\* The last jiffy of the model.
MaxJiffies == 2

\* The transitions counted in the model.
MaxTrans == 2

\* The valid entries of the frequency tables a driver may have.
StatTables == { <<100, 200>>, <<100, 200, 300>>, <<200, 100, 200>> }

\* The frequencies of policy->cur and of freq->new.
StatFreqs == {0, 100, 200, 300, 400}

\* Lines 773-780: the first index below max_state with the frequency, or -1.
freq_table_get_index(stats, freq) ==
    LET found == {index \in 0..(stats.max_state - 1) :
                     stats.freq_table[index] = freq}
    IN IF found = {} THEN -1
       ELSE CHOOSE index \in found : \A other \in found : index <= other

\* Lines 868-871: the entries of the driver's table from the k-th on are
\* put at freq_table[i] and after, unless freq_table_get_index finds them;
\* stats->max_state is still 0 here, it is set at line 876.
RECURSIVE FillFreqTable(_, _, _, _)
FillFreqTable(stats, table, k, i) ==
    IF k > Len(table) THEN stats
    ELSE IF freq_table_get_index(stats, table[k]) = -1
      THEN FillFreqTable([stats EXCEPT !.freq_table[i] = table[k]],
                         table, k + 1, i + 1)
      ELSE FillFreqTable(stats, table, k + 1, i)

\* Lines 841-884: __cpufreq_stats_create_table for a table of count valid
\* entries and policy->cur = cur; -EBUSY when the policy has stats.
cpufreq_stats_create_table(table, cur) ==
    LET count == Len(table)
        zeroed == [NoStats EXCEPT
                     !.present = TRUE,
                     !.time_in_state = [i \in 0..(count - 1) |-> 0],
                     !.freq_table = [i \in 0..(count - 1) |-> 0]]
        filled == [FillFreqTable(zeroed, table, 1, 0) EXCEPT
                     !.max_state = count,
                     !.last_time = jiffies]
    IN
    /\ ~policy_stats.present
    /\ policy_stats' =
          [filled EXCEPT !.curr_state = freq_table_get_index(filled, cur)]
    /\ UNCHANGED <<jiffies, overrun, notified, uid_hash_table, remove_uids>>
    /\ UNCHANGED <<per_policy, loadvars, policy, gdbs_data,
                   gov_dbs_data_mutex, dbs, governor_data, pdbs, cdbs,
                   update_util, hnd, irq_work, work, gov, sysfs>>

\* Lines 782-796: __cpufreq_stats_free_table.
cpufreq_stats_free_table ==
    /\ policy_stats.present
    /\ policy_stats' = NoStats
    /\ UNCHANGED <<jiffies, overrun, notified, uid_hash_table, remove_uids>>
    /\ UNCHANGED <<per_policy, loadvars, policy, gdbs_data,
                   gov_dbs_data_mutex, dbs, governor_data, pdbs, cdbs,
                   update_util, hnd, irq_work, work, gov, sysfs>>

\* A timer tick.
JiffiesTick ==
    /\ jiffies < MaxJiffies
    /\ jiffies' = jiffies + 1
    /\ UNCHANGED <<policy_stats, overrun, notified, uid_hash_table,
                   remove_uids>>
    /\ UNCHANGED <<per_policy, loadvars, policy, gdbs_data,
                   gov_dbs_data_mutex, dbs, governor_data, pdbs, cdbs,
                   update_util, hnd, irq_work, work, gov, sysfs>>

\* curr_state names a slot of time_in_state.
ValidState(stats) == stats.curr_state \in 0..(stats.max_state - 1)

\* (Variant of cpufreq_stats_update that adds the time to slot 0.)
cpufreq_stats_update_First(stats, cur_time) ==
    [stats EXCEPT
       !.time_in_state =
           IF ValidState(stats)
             THEN [@ EXCEPT ![0] = @ + (cur_time - stats.last_time)]
             ELSE @,
       !.last_time = cur_time]

\* Lines 438-448: cpufreq_stats_update.  A curr_state that is no index of
\* time_in_state makes the addition a write outside the array, which leaves
\* the array as it is.
cpufreq_stats_update(stats, cur_time) ==
    [stats EXCEPT
       !.time_in_state =
           IF ValidState(stats)
             THEN [@ EXCEPT ![stats.curr_state] =
                              @ + (cur_time - stats.last_time)]
             ELSE @,
       !.last_time = cur_time]

StatVals == {"CPUFREQ_PRECHANGE", "CPUFREQ_POSTCHANGE"}

\* Lines 958-985: cpufreq_stat_notifier_trans, called with val for a
\* transition to the frequency new; found: cpufreq_cpu_get returns a policy.
cpufreq_stat_notifier_trans(val, found, new) ==
    /\ notified' = [val |-> val, found |-> found, new |-> new]
    /\ IF val # "CPUFREQ_POSTCHANGE" \/ ~found \/ ~policy_stats.present
         THEN UNCHANGED <<policy_stats, overrun>>
         ELSE /\ policy_stats.total_trans < MaxTrans
              /\ overrun' = (overrun \/ ~ValidState(policy_stats))
              /\ policy_stats' =
                    [cpufreq_stats_update(policy_stats, jiffies) EXCEPT
                       !.curr_state = freq_table_get_index(policy_stats, new),
                       !.total_trans = @ + 1]
    /\ UNCHANGED <<jiffies, uid_hash_table, remove_uids>>
    /\ UNCHANGED <<per_policy, loadvars, policy, gdbs_data,
                   gov_dbs_data_mutex, dbs, governor_data, pdbs, cdbs,
                   update_util, hnd, irq_work, work, gov, sysfs>>

(***************************************************************************)
(* SpecStats: the stats table is created and freed, time passes and        *)
(* transitions are notified.                                               *)
(***************************************************************************)
NextStats ==
    \/ \E table \in StatTables, cur \in StatFreqs :
          cpufreq_stats_create_table(table, cur)
    \/ cpufreq_stats_free_table
    \/ JiffiesTick
    \/ \E val \in StatVals, found \in BOOLEAN, new \in StatFreqs :
          cpufreq_stat_notifier_trans(val, found, new)

SpecStats == InitSystemWide /\ [][NextStats]_vars

\* The step is a call of cpufreq_stat_notifier_trans.
Notified ==
    /\ policy_stats'.present = policy_stats.present
    /\ jiffies' = jiffies
    /\ notified' # notified \/ policy_stats' # policy_stats

\* The call counts: POSTCHANGE for a policy that has stats.
Counted ==
    /\ notified'.val = "CPUFREQ_POSTCHANGE"
    /\ notified'.found
    /\ policy_stats.present

\* C38: a call of cpufreq_stat_notifier_trans with CPUFREQ_POSTCHANGE for a
\* policy that has stats adds one to total_trans, adds the jiffies since
\* last_time to the time_in_state slot of the curr_state it found, when
\* that is a slot, and to no other, sets last_time, and sets curr_state to
\* the index of the new frequency in freq_table when it has one; a call
\* with another value, or without policy or stats, leaves the stats as
\* they are.
C38_PostchangeCountsTransition ==
    [][Notified =>
         IF Counted THEN
           LET old == policy_stats
               new == policy_stats'
           IN
           /\ new.total_trans = old.total_trans + 1
           /\ new.last_time = jiffies
           /\ new.present
           /\ new.max_state = old.max_state
           /\ new.freq_table = old.freq_table
           /\ \A i \in 0..(old.max_state - 1) :
                 new.time_in_state[i] =
                    IF i = old.curr_state
                      THEN old.time_in_state[i] + (jiffies - old.last_time)
                      ELSE old.time_in_state[i]
           /\ \A i \in 0..(old.max_state - 1) :
                 old.freq_table[i] = notified'.new
                    => /\ new.curr_state \in 0..i
                       /\ old.freq_table[new.curr_state] = notified'.new
         ELSE policy_stats' = policy_stats /\ overrun' = overrun]_vars

\* A second transition has been counted after a jiffy in the state of the
\* first: the time is in the slot of 200, the current state is that of 300.
C38_Witness ==
    /\ policy_stats.present
    /\ policy_stats.total_trans = 2
    /\ policy_stats.max_state = 3
    /\ policy_stats.freq_table[1] = 200
    /\ policy_stats.time_in_state[1] = 1
    /\ ValidState(policy_stats)
    /\ policy_stats.freq_table[policy_stats.curr_state] = 300
    /\ notified.new = 300
    /\ ~overrun

\* C39: the curr_state of a policy that has stats is an index of
\* time_in_state, and no call of cpufreq_stats_update has written outside
\* the array.
C39_CurrStateInRange ==
    /\ policy_stats.present => ValidState(policy_stats)
    /\ ~overrun

(***************************************************************************)
(* cpufreq_stats.c: the uid hash table and cpufreq_task_stats_remove_uids. *)
(***************************************************************************)
\* The width of uid_t in the model.
UID_BITS == 2

Uids == 0..(2 ^ UID_BITS - 1)

\* Lines 121-170: find_or_register_uid adds the entry of a uid that has
\* none; its callers hold uid_lock, which remove_uids holds for its loop.
find_or_register_uid(uid) ==
    /\ remove_uids.pc = "idle"
    /\ uid \notin uid_hash_table
    /\ uid_hash_table' = uid_hash_table \cup {uid}
    /\ UNCHANGED <<policy_stats, jiffies, overrun, notified, remove_uids>>
    /\ UNCHANGED <<per_policy, loadvars, policy, gdbs_data,
                   gov_dbs_data_mutex, dbs, governor_data, pdbs, cdbs,
                   update_util, hnd, irq_work, work, gov, sysfs>>

\* Lines 915-921: cpufreq_task_stats_remove_uids is called and takes
\* uid_lock.
cpufreq_task_stats_remove_uids(uid_start, uid_end) ==
    /\ remove_uids.pc = "idle"
    /\ uid_start <= uid_end
    /\ remove_uids' = [pc |-> "loop", uid_start |-> uid_start,
                       uid_end |-> uid_end, first |-> uid_start]
    /\ UNCHANGED <<policy_stats, jiffies, overrun, notified, uid_hash_table>>
    /\ UNCHANGED <<per_policy, loadvars, policy, gdbs_data,
                   gov_dbs_data_mutex, dbs, governor_data, pdbs, cdbs,
                   update_util, hnd, irq_work, work, gov, sysfs>>

\* Line 923: uid_start++ on a uid_t.
UidNext(uid) == (uid + 1) % (2 ^ UID_BITS)

\* Lines 924-930: the entry of the bucket with this uid is deleted.
UidRemoved(table, uid) == table \ {uid}

\* Lines 923-933: the test of the for loop, and one iteration or the
\* unlock and return.
RemoveUidsLoop ==
    /\ remove_uids.pc = "loop"
    /\ IF remove_uids.uid_start <= remove_uids.uid_end
         THEN /\ uid_hash_table' =
                    UidRemoved(uid_hash_table, remove_uids.uid_start)
              /\ remove_uids' = [remove_uids EXCEPT
                                   !.uid_start = UidNext(@)]
         ELSE /\ remove_uids' = NoRemove
              /\ UNCHANGED uid_hash_table
    /\ UNCHANGED <<policy_stats, jiffies, overrun, notified>>
    /\ UNCHANGED <<per_policy, loadvars, policy, gdbs_data,
                   gov_dbs_data_mutex, dbs, governor_data, pdbs, cdbs,
                   update_util, hnd, irq_work, work, gov, sysfs>>

(***************************************************************************)
(* SpecUids: uids are registered and ranges of uids removed.  The loop of  *)
(* cpufreq_task_stats_remove_uids runs with interrupts off on its CPU, so  *)
(* it takes its next step as long as it has one.                           *)
(***************************************************************************)
NextUids ==
    \/ \E uid \in Uids : find_or_register_uid(uid)
    \/ \E uid_start, uid_end \in Uids :
          cpufreq_task_stats_remove_uids(uid_start, uid_end)
    \/ RemoveUidsLoop

SpecUids == InitSystemWide /\ [][NextUids]_vars /\ WF_vars(RemoveUidsLoop)

\* C40: every call of cpufreq_task_stats_remove_uids returns.
C40_RemoveUidsReturns ==
    (remove_uids.pc = "loop") ~> (remove_uids.pc = "idle")

\* C40, the entries: an iteration removes no uid outside the range of the
\* call, and at the return no uid of the range has an entry.
C40_RemoveUidsExactlyRange ==
    [][remove_uids.pc = "loop" =>
         /\ \A u \in uid_hash_table \ uid_hash_table' :
               remove_uids.first <= u /\ u <= remove_uids.uid_end
         /\ remove_uids'.pc = "idle" =>
               \A u \in uid_hash_table :
                  ~(remove_uids.first <= u /\ u <= remove_uids.uid_end)]_vars

====
